---- MODULE Spec2Model ----
(***************************************************************************)
(* Verification model of the DSN -> CSRD questionnaire pipeline:           *)
(*   - DSNDataReader / getBloc        (app/utils/dsn-parser)               *)
(*   - the metric strategies          (app/utils/matching/strategies)      *)
(*   - loadQuestionsFromCsv           (app/utils/questions)                *)
(*   - computeAnswers                 (app/utils/matching)                 *)
(* Each component has its own specification over the shared variables.     *)
(***************************************************************************)
EXTENDS Integers, Sequences, FiniteSets, TLC

VARIABLES
    rows,           \* DataDSN.rows handed to DSNDataReader
    index,          \* DSNDataReader's scan index (1-based here, 0-based in the source)
    declaration,    \* the Declaration under construction
    dsnPc,          \* parseDsnFile / DSNDataReader position: "precheck", "read", "scan", "done", "threw"
    employees,      \* Employee[] handed to a metric strategy / computeAnswers
    period,         \* { start, end } of the reporting period
    result,         \* last strategy call: [op, value]
    csvRows,        \* loadQuestionsFromCsv: the row objects of the data lines
    flatQuestions,  \* loadQuestionsFromCsv: the QuestionNodes, in file order
    questionMap,    \* loadQuestionsFromCsv: id -> node (position in flatQuestions)
    children,       \* node.children of every node (positions in flatQuestions)
    roots,          \* the root list (positions in flatQuestions)
    loaderPc,       \* "start" before loadQuestionsFromCsv, "done" after it returns, "threw" after it throws
    csvFile,        \* the lines of the catalogue file, each a list of fields (<<>> for a blank line)
    loadError,      \* the error loadQuestionsFromCsv threw: [kind, column, row]
    questionTree,   \* the forest handed to computeAnswers
    answers,        \* Record<string, Answer> built by computeAnswers
    answersPc,      \* "start" before computeAnswers, "done" after
    content,        \* parseDsnFile: the lines of the uploaded text
    parseError,     \* the error parseDsnFile threw, "none" if none
    initialAnswers,      \* QuestionnaireForm: data.answers
    manualAnswerChanges, \* QuestionnaireForm: useState, id -> { value, explanation }
    collapsedSections,   \* QuestionnaireForm: useState, id -> boolean
    upload,         \* the upload action's request and what its pipeline raises
    response        \* the upload action's response

dsnVars     == <<rows, index, declaration, dsnPc, content, parseError>>
metricVars  == <<employees, period, result>>
loaderVars  == <<csvRows, flatQuestions, questionMap, children, roots, loaderPc,
                 csvFile, loadError>>
answerVars  == <<questionTree, answers, answersPc>>
formVars    == <<initialAnswers, manualAnswerChanges, collapsedSections>>
uploadVars  == <<upload, response>>
vars        == <<dsnVars, metricVars, loaderVars, answerVars, formVars, uploadVars>>

(***************************************************************************)
(* Bounds of the model.                                                    *)
(***************************************************************************)
MaxRows == 3

\* undefined (a missing key of a Record, an unset optional field)
UNDEF == "undefined"

\* loadQuestionsFromCsv has thrown nothing
NoLoadError == [kind |-> "none", column |-> "", row |-> 0]

(***************************************************************************)
(* DSN rows.  rubriqueCode is blocCode + "." + valueCode (substring(0,14)), *)
(* so inside one bloc the valueCode identifies the rubrique.  A valueCode   *)
(* is the three digits matched by [0-9]{3}.                                 *)
(***************************************************************************)
HeaderCode        == "S20.G00.05"
EntrepriseCode    == "S21.G00.06"
EtablissementCode == "S21.G00.11"
IndividuCode      == "S21.G00.30"
ContratCode       == "S21.G00.40"
FinContratCode    == "S21.G00.62"
OtherCode         == "S21.G00.50"

BlocCodes == {HeaderCode, EntrepriseCode, EtablissementCode, IndividuCode,
              ContratCode, FinContratCode, OtherCode}

ValueCodes == {<<0, 0, 1>>, <<0, 0, 2>>}
Values     == {"a", "b"}

DSNRow == [blocCode : BlocCodes, valueCode : ValueCodes, value : Values]

\* parseInt of a three-digit token
ParseInt(valueCode) == valueCode[1] * 100 + valueCode[2] * 10 + valueCode[3]

\* All sequences over S of length 0..n
SeqsUpTo(S, n) == UNION {[1..k -> S] : k \in 0..n}

(***************************************************************************)
(* getBloc: the while loop, as the final (bloc, currentIndex) it reaches.  *)
(***************************************************************************)
\* getBloc's loop without the test on the sequence code
RECURSIVE GetBlocLoop_AnySequence(_, _, _, _, _)
GetBlocLoop_AnySequence(rs, currentIndex, blocCode, valueCode, bloc) ==
    IF /\ currentIndex <= Len(rs)
       /\ rs[currentIndex].blocCode = blocCode
    THEN LET row == rs[currentIndex]
             key == row.valueCode
             bloc2 == [k \in (DOMAIN bloc) \cup {key} |->
                          IF k = key THEN row.value ELSE bloc[k]]
         IN  GetBlocLoop_AnySequence(rs, currentIndex + 1, blocCode, row.valueCode, bloc2)
    ELSE [bloc |-> bloc, currentIndex |-> currentIndex]

RECURSIVE GetBlocLoop(_, _, _, _, _)
GetBlocLoop(rs, currentIndex, blocCode, valueCode, bloc) ==
    IF /\ currentIndex <= Len(rs)
       /\ rs[currentIndex].blocCode = blocCode
       /\ ParseInt(rs[currentIndex].valueCode) >= ParseInt(valueCode)
    THEN LET row == rs[currentIndex]
             key == row.valueCode
             bloc2 == [k \in (DOMAIN bloc) \cup {key} |->
                          IF k = key THEN row.value ELSE bloc[k]]
         IN  GetBlocLoop(rs, currentIndex + 1, blocCode, row.valueCode, bloc2)
    ELSE [bloc |-> bloc, currentIndex |-> currentIndex]

getBloc(rs, i, blocCode) ==
    LET valueCode == IF i <= Len(rs) THEN rs[i].valueCode ELSE <<0, 0, 1>>
    IN  GetBlocLoop(rs, i, blocCode, valueCode, <<>>).bloc

\* bloc["<blocCode>.<ddd>"]
Field(bloc, valueCode) ==
    IF valueCode \in DOMAIN bloc THEN bloc[valueCode] ELSE UNDEF

(***************************************************************************)
(* DSNDataReader: "Advance index past current block".  After index++ the   *)
(* loop re-reads valueCode from the row it has just moved to.              *)
(***************************************************************************)
\* the advance loop entered only for the block codes DSNDataReader dispatches
RECURSIVE AdvanceIndex_RecognisedOnly(_, _, _, _)
AdvanceIndex_RecognisedOnly(rs, i, blocCode, valueCode) ==
    IF /\ blocCode # "S21.G00.50"
       /\ i <= Len(rs)
       /\ rs[i].blocCode = blocCode
       /\ ParseInt(rs[i].valueCode) >= ParseInt(valueCode)
    THEN AdvanceIndex_RecognisedOnly(rs, i + 1, blocCode,
                      IF i + 1 <= Len(rs) THEN rs[i + 1].valueCode ELSE valueCode)
    ELSE i

RECURSIVE AdvanceIndex(_, _, _, _)
AdvanceIndex(rs, i, blocCode, valueCode) ==
    IF /\ i <= Len(rs)
       /\ rs[i].blocCode = blocCode
       /\ ParseInt(rs[i].valueCode) >= ParseInt(valueCode)
    THEN AdvanceIndex(rs, i + 1, blocCode,
                      IF i + 1 <= Len(rs) THEN rs[i + 1].valueCode ELSE valueCode)
    ELSE i

(***************************************************************************)
(* The Declaration graph.                                                  *)
(***************************************************************************)
NoEntreprise ==
    [defined |-> FALSE, siren |-> UNDEF, nic |-> UNDEF, country |-> UNDEF,
     hasEtablissements |-> FALSE, etablissements |-> <<>>]

EmptyDeclaration ==
    [nature |-> UNDEF, type |-> UNDEF, fraction |-> UNDEF, ordre |-> UNDEF,
     mois |-> UNDEF, dateFichier |-> UNDEF, champ |-> UNDEF, devise |-> UNDEF,
     entreprise |-> NoEntreprise, validStatement |-> TRUE]

\* declaration.entreprise?.etablissements || []
Etablissements(decl) ==
    IF decl.entreprise.defined /\ decl.entreprise.hasEtablissements
    THEN decl.entreprise.etablissements
    ELSE <<>>

NewEtablissement(bloc) ==
    [nic |-> Field(bloc, <<0, 0, 1>>), countryCode |-> Field(bloc, <<0, 1, 5>>),
     individus |-> <<>>]

NewIndividu(bloc) ==
    [identifiant |-> Field(bloc, <<0, 0, 1>>), nomFamille |-> Field(bloc, <<0, 0, 2>>),
     nomUsage |-> Field(bloc, <<0, 0, 3>>), prenoms |-> Field(bloc, <<0, 0, 4>>),
     sexe |-> Field(bloc, <<0, 0, 5>>), identifiantTechnique |-> Field(bloc, <<0, 2, 0>>),
     contrats |-> <<>>, versements |-> <<>>]

NewContrat(bloc) ==
    [dateDebut |-> Field(bloc, <<0, 0, 1>>), dateFin |-> UNDEF,
     statutConventionnel |-> Field(bloc, <<0, 0, 2>>), pcsEse |-> Field(bloc, <<0, 0, 4>>),
     complementPcsEse |-> Field(bloc, <<0, 0, 5>>), nature |-> Field(bloc, <<0, 0, 7>>),
     dispositifPolitique |-> Field(bloc, <<0, 0, 8>>), numero |-> Field(bloc, <<0, 0, 9>>),
     uniteMesure |-> Field(bloc, <<0, 1, 1>>), quotiteCategorie |-> Field(bloc, <<0, 1, 2>>),
     quotite |-> Field(bloc, <<0, 1, 3>>), modaliteTemps |-> Field(bloc, <<0, 1, 4>>)]

\* the branch for S20.G00.05
ApplyHeader(decl, bloc) ==
    [decl EXCEPT !.nature = Field(bloc, <<0, 0, 1>>), !.type = Field(bloc, <<0, 0, 2>>),
                 !.fraction = Field(bloc, <<0, 0, 3>>), !.ordre = Field(bloc, <<0, 0, 4>>),
                 !.mois = Field(bloc, <<0, 0, 5>>), !.dateFichier = Field(bloc, <<0, 0, 7>>),
                 !.champ = Field(bloc, <<0, 0, 8>>), !.devise = Field(bloc, <<0, 1, 0>>)]

\* the branch for S21.G00.06: entreprise is replaced by a fresh object literal
\* that has no etablissements property
ApplyEntreprise(decl, bloc) ==
    [decl EXCEPT !.entreprise =
        [defined |-> TRUE, siren |-> Field(bloc, <<0, 0, 1>>),
         nic |-> Field(bloc, <<0, 0, 2>>), country |-> Field(bloc, <<0, 1, 0>>),
         hasEtablissements |-> FALSE, etablissements |-> <<>>]]

\* the branch for S21.G00.11
ApplyEtablissement(decl, bloc) ==
    LET ent  == IF ~decl.entreprise.defined
                THEN [NoEntreprise EXCEPT !.defined = TRUE, !.hasEtablissements = TRUE]
                ELSE IF ~decl.entreprise.hasEtablissements
                THEN [decl.entreprise EXCEPT !.hasEtablissements = TRUE,
                                             !.etablissements = <<>>]
                ELSE decl.entreprise
    IN  [decl EXCEPT !.entreprise =
            [ent EXCEPT !.etablissements = Append(ent.etablissements, NewEtablissement(bloc))]]

\* the branch for S21.G00.30 appending to the first establishment
ApplyIndividu_FirstEstablishment(decl, bloc) ==
    IF Len(Etablissements(decl)) > 0
    THEN [decl EXCEPT !.entreprise.etablissements[1].individus =
                          Append(@, NewIndividu(bloc))]
    ELSE decl

\* the branch for S21.G00.30
ApplyIndividu(decl, bloc) ==
    LET etabs == Etablissements(decl)
        n     == Len(etabs)
    IN  IF n > 0
        THEN [decl EXCEPT !.entreprise.etablissements[n].individus =
                              Append(@, NewIndividu(bloc))]
        ELSE decl

\* the branch for S21.G00.40 falling back on the last establishment that has
\* an individual
ApplyContrat_LastEmployingEstablishment(decl, bloc) ==
    LET etabs     == Etablissements(decl)
        employing == {e \in DOMAIN etabs : Len(etabs[e].individus) > 0}
    IN  IF employing # {}
        THEN LET n == CHOOSE e \in employing : \A f \in employing : f <= e
                 m == Len(etabs[n].individus)
             IN  [decl EXCEPT !.entreprise.etablissements[n].individus[m].contrats =
                                  Append(@, NewContrat(bloc))]
        ELSE decl

\* the branch for S21.G00.40
ApplyContrat(decl, bloc) ==
    LET etabs == Etablissements(decl)
        n     == Len(etabs)
    IN  IF n > 0 /\ Len(etabs[n].individus) > 0
        THEN LET m == Len(etabs[n].individus)
             IN  [decl EXCEPT !.entreprise.etablissements[n].individus[m].contrats =
                                  Append(@, NewContrat(bloc))]
        ELSE decl

\* the branch for S21.G00.62 falling back, in the last establishment, on the
\* last individual that has a contract
ApplyFinContrat_LastContractHolder(decl, bloc) ==
    LET etabs == Etablissements(decl)
        n     == Len(etabs)
    IN  IF n = 0 THEN decl
        ELSE LET holders == {i \in DOMAIN etabs[n].individus :
                                Len(etabs[n].individus[i].contrats) > 0}
             IN  IF holders = {} THEN decl
                 ELSE LET m == CHOOSE i \in holders : \A j \in holders : j <= i
                          c == Len(etabs[n].individus[m].contrats)
                      IN  [decl EXCEPT
                              !.entreprise.etablissements[n].individus[m].contrats[c].dateFin =
                                  Field(bloc, <<0, 0, 1>>)]

\* the branch for S21.G00.62
ApplyFinContrat(decl, bloc) ==
    LET etabs == Etablissements(decl)
        n     == Len(etabs)
    IN  IF n > 0 /\ Len(etabs[n].individus) > 0
           /\ Len(etabs[n].individus[Len(etabs[n].individus)].contrats) > 0
        THEN LET m == Len(etabs[n].individus)
                 c == Len(etabs[n].individus[m].contrats)
             IN  [decl EXCEPT !.entreprise.etablissements[n].individus[m].contrats[c].dateFin =
                                  Field(bloc, <<0, 0, 1>>)]
        ELSE decl

(***************************************************************************)
(* One iteration of DSNDataReader's main loop: dispatch on the block code  *)
(* of rows[index], then advance the index.                                 *)
(***************************************************************************)
HeaderBlock ==
    /\ dsnPc = "scan"
    /\ index <= Len(rows)
    /\ rows[index].blocCode = HeaderCode
    /\ declaration' = ApplyHeader(declaration, getBloc(rows, index, HeaderCode))
    /\ index' = AdvanceIndex(rows, index, HeaderCode, rows[index].valueCode)
    /\ UNCHANGED <<content, parseError, rows, dsnPc, metricVars, loaderVars, answerVars, formVars, uploadVars>>

EntrepriseBlock ==
    /\ dsnPc = "scan"
    /\ index <= Len(rows)
    /\ rows[index].blocCode = EntrepriseCode
    /\ declaration' = ApplyEntreprise(declaration, getBloc(rows, index, EntrepriseCode))
    /\ index' = AdvanceIndex(rows, index, EntrepriseCode, rows[index].valueCode)
    /\ UNCHANGED <<content, parseError, rows, dsnPc, metricVars, loaderVars, answerVars, formVars, uploadVars>>

EtablissementBlock ==
    /\ dsnPc = "scan"
    /\ index <= Len(rows)
    /\ rows[index].blocCode = EtablissementCode
    /\ declaration' = ApplyEtablissement(declaration, getBloc(rows, index, EtablissementCode))
    /\ index' = AdvanceIndex(rows, index, EtablissementCode, rows[index].valueCode)
    /\ UNCHANGED <<content, parseError, rows, dsnPc, metricVars, loaderVars, answerVars, formVars, uploadVars>>

IndividuBlock ==
    /\ dsnPc = "scan"
    /\ index <= Len(rows)
    /\ rows[index].blocCode = IndividuCode
    /\ declaration' = ApplyIndividu(declaration, getBloc(rows, index, IndividuCode))
    /\ index' = AdvanceIndex(rows, index, IndividuCode, rows[index].valueCode)
    /\ UNCHANGED <<content, parseError, rows, dsnPc, metricVars, loaderVars, answerVars, formVars, uploadVars>>

ContratBlock ==
    /\ dsnPc = "scan"
    /\ index <= Len(rows)
    /\ rows[index].blocCode = ContratCode
    /\ declaration' = ApplyContrat(declaration, getBloc(rows, index, ContratCode))
    /\ index' = AdvanceIndex(rows, index, ContratCode, rows[index].valueCode)
    /\ UNCHANGED <<content, parseError, rows, dsnPc, metricVars, loaderVars, answerVars, formVars, uploadVars>>

FinContratBlock ==
    /\ dsnPc = "scan"
    /\ index <= Len(rows)
    /\ rows[index].blocCode = FinContratCode
    /\ declaration' = ApplyFinContrat(declaration, getBloc(rows, index, FinContratCode))
    /\ index' = AdvanceIndex(rows, index, FinContratCode, rows[index].valueCode)
    /\ UNCHANGED <<content, parseError, rows, dsnPc, metricVars, loaderVars, answerVars, formVars, uploadVars>>

\* any other block code: no branch matches, only the index advances
OtherBlock ==
    /\ dsnPc = "scan"
    /\ index <= Len(rows)
    /\ rows[index].blocCode \notin {HeaderCode, EntrepriseCode, EtablissementCode,
                                    IndividuCode, ContratCode, FinContratCode}
    /\ index' = AdvanceIndex(rows, index, rows[index].blocCode, rows[index].valueCode)
    /\ UNCHANGED <<content, parseError, rows, declaration, dsnPc, metricVars, loaderVars, answerVars, formVars, uploadVars>>

\* the loop condition fails: return declaration
ReturnDeclaration ==
    /\ dsnPc = "scan"
    /\ index > Len(rows)
    /\ dsnPc' = "done"
    /\ UNCHANGED <<content, parseError, rows, index, declaration, metricVars, loaderVars, answerVars, formVars, uploadVars>>

(***************************************************************************)
(* Employees and dates.  A Date | null is <<>> for null and <<day>> for a  *)
(* Date (parseDsnDate and extractReportingPeriod both build local-midnight *)
(* dates, so a Date is a day number); every Date object is truthy.         *)
(***************************************************************************)
MaxEmployees == 3

Null      == <<>>
DateOf(d) == <<d>>
Truthy(x) == x # Null
Day(x)    == x[1]

\* Day numbers.  The strategies only compare a date with period.start and
\* period.end; over the periods drawn from these days a date lies before,
\* on, between and after the two bounds.
Days        == {1, 2, 3}
DateOrNull  == {Null} \cup {DateOf(d) : d \in Days}
\* extractReportingPeriod returns the first and the last day of one month
Periods     == {[start |-> s, end |-> e] : s, e \in Days} 

(***************************************************************************)
(* The metric strategies.  Each returns { value, explanation }; the        *)
(* explanation only repeats the numbers and is left out.                   *)
(***************************************************************************)
computeHeadcountAtPeriodStart(emps, periodStart) ==
    LET Active(emp) == /\ Truthy(emp.contractStart)
                       /\ Day(emp.contractStart) <= periodStart
                       /\ (~Truthy(emp.contractEnd) \/ Day(emp.contractEnd) >= periodStart)
    IN  [value |-> Cardinality({i \in DOMAIN emps : Active(emps[i])})]

\* computeLeavers with the period's last day left out
computeLeavers_EndExclusive(emps, p) ==
    LET Left(emp) == IF ~Truthy(emp.contractEnd) THEN FALSE
                     ELSE Day(emp.contractEnd) >= p.start /\ Day(emp.contractEnd) < p.end
    IN  [value |-> Cardinality({i \in DOMAIN emps : Left(emps[i])})]

computeLeavers(emps, p) ==
    LET Left(emp) == IF ~Truthy(emp.contractEnd) THEN FALSE
                     ELSE Day(emp.contractEnd) >= p.start /\ Day(emp.contractEnd) <= p.end
    IN  [value |-> Cardinality({i \in DOMAIN emps : Left(emps[i])})]

\* computeHeadcountAtPeriodEnd counting a contract that ends on the date itself
computeHeadcountAtPeriodEnd_EndDayActive(emps, periodEndDate) ==
    LET Active(emp) == IF ~Truthy(emp.contractStart) THEN FALSE
                       ELSE IF Day(emp.contractStart) > periodEndDate THEN FALSE
                       ELSE IF Truthy(emp.contractEnd) /\ Day(emp.contractEnd) < periodEndDate
                            THEN FALSE
                       ELSE TRUE
    IN  [value |-> Cardinality({i \in DOMAIN emps : Active(emps[i])})]

computeHeadcountAtPeriodEnd(emps, periodEndDate) ==
    LET Active(emp) == IF ~Truthy(emp.contractStart) THEN FALSE
                       ELSE IF Day(emp.contractStart) > periodEndDate THEN FALSE
                       ELSE IF Truthy(emp.contractEnd) /\ Day(emp.contractEnd) <= periodEndDate
                            THEN FALSE
                       ELSE TRUE
    IN  [value |-> Cardinality({i \in DOMAIN emps : Active(emps[i])})]

\* parseFloat(x.toFixed(1)) of x = halves / 2, in tenths: a multiple of one half
\* has at most one decimal, so toFixed(1) keeps it exactly
ToFixed1OfHalves(halves) == halves * 5

\* value is in tenths (4.5 is 45)
computeAverageHeadcount(emps, p) ==
    LET AtStart(emp) == /\ Truthy(emp.contractStart)
                        /\ Day(emp.contractStart) <= p.start
                        /\ (~Truthy(emp.contractEnd) \/ Day(emp.contractEnd) >= p.start)
        AtEnd(emp)   == /\ Truthy(emp.contractStart)
                        /\ Day(emp.contractStart) <= p.end
                        /\ (~Truthy(emp.contractEnd) \/ Day(emp.contractEnd) >= p.end)
        startCount   == Cardinality({i \in DOMAIN emps : AtStart(emps[i])})
        endCount     == Cardinality({i \in DOMAIN emps : AtEnd(emps[i])})
    IN  [value |-> ToFixed1OfHalves(startCount + endCount)]

\* Math.floor in place of Math.round
RoundPercent_Floor(num, den) == (100 * num) \div den

\* Math.round(num / den * 100) for num >= 0, den > 0: halves round up
RoundPercent(num, den) == (200 * num + den) \div (2 * den)

computeTurnoverRate(emps, p) ==
    LET leavers        == computeLeavers(emps, p)
        startHeadcount == computeHeadcountAtPeriodStart(emps, p.start)
    IN  IF startHeadcount.value = 0
        THEN [value |-> 0]
        ELSE [value |-> RoundPercent(leavers.value, startHeadcount.value)]

(***************************************************************************)
(* One strategy call on the drawn employee list and period.                *)
(***************************************************************************)
HeadcountAtPeriodStart ==
    /\ result.op = "none"
    /\ result' = [op |-> "start", value |-> computeHeadcountAtPeriodStart(employees, period.start).value]
    /\ UNCHANGED <<employees, period, dsnVars, loaderVars, answerVars, formVars, uploadVars>>

HeadcountAtPeriodEnd ==
    /\ result.op = "none"
    /\ result' = [op |-> "end", value |-> computeHeadcountAtPeriodEnd(employees, period.end).value]
    /\ UNCHANGED <<employees, period, dsnVars, loaderVars, answerVars, formVars, uploadVars>>

AverageHeadcount ==
    /\ result.op = "none"
    /\ result' = [op |-> "average", value |-> computeAverageHeadcount(employees, period).value]
    /\ UNCHANGED <<employees, period, dsnVars, loaderVars, answerVars, formVars, uploadVars>>

Leavers ==
    /\ result.op = "none"
    /\ result' = [op |-> "leavers", value |-> computeLeavers(employees, period).value]
    /\ UNCHANGED <<employees, period, dsnVars, loaderVars, answerVars, formVars, uploadVars>>

TurnoverRate ==
    /\ result.op = "none"
    /\ result' = [op |-> "turnover", value |-> computeTurnoverRate(employees, period).value]
    /\ UNCHANGED <<employees, period, dsnVars, loaderVars, answerVars, formVars, uploadVars>>

DatedEmployee ==
    [id : {"e"}, country : {"FR"}, birthCountry : {""}, gender : {"M"},
     contractStart : DateOrNull, contractEnd : DateOrNull, pcsEse : {"3855"}]

MetricInit ==
    /\ content = <<>> /\ parseError = "none"
    /\ initialAnswers = <<>> /\ manualAnswerChanges = <<>> /\ collapsedSections = <<>>
    /\ upload = <<>> /\ response = <<>>
    /\ csvFile = <<>> /\ loadError = NoLoadError
    /\ employees \in SeqsUpTo(DatedEmployee, MaxEmployees)
    /\ period \in {p \in Periods : p.start < p.end}
    /\ result = [op |-> "none", value |-> 0]
    /\ rows = <<>> /\ index = 1 /\ declaration = EmptyDeclaration /\ dsnPc = "idle"
    /\ csvRows = <<>> /\ flatQuestions = <<>> /\ questionMap = <<>>
    /\ children = <<>> /\ roots = <<>> /\ loaderPc = "idle"
    /\ questionTree = <<>> /\ answers = <<>> /\ answersPc = "idle"

MetricNext ==
    \/ HeadcountAtPeriodStart
    \/ HeadcountAtPeriodEnd
    \/ AverageHeadcount
    \/ Leavers
    \/ TurnoverRate

DsnInit ==
    /\ content = <<>> /\ parseError = "none"
    /\ initialAnswers = <<>> /\ manualAnswerChanges = <<>> /\ collapsedSections = <<>>
    /\ upload = <<>> /\ response = <<>>
    /\ csvFile = <<>> /\ loadError = NoLoadError
    /\ rows \in SeqsUpTo(DSNRow, MaxRows)
    /\ index = 1
    /\ declaration = EmptyDeclaration
    /\ dsnPc = "scan"
    /\ employees = <<>> /\ period = [start |-> 1, end |-> 1]
    /\ result = [op |-> "none", value |-> 0]
    /\ csvRows = <<>> /\ flatQuestions = <<>> /\ questionMap = <<>>
    /\ children = <<>> /\ roots = <<>> /\ loaderPc = "idle"
    /\ questionTree = <<>> /\ answers = <<>> /\ answersPc = "idle"

DsnNext ==
    \/ HeaderBlock
    \/ EntrepriseBlock
    \/ EtablissementBlock
    \/ IndividuBlock
    \/ ContratBlock
    \/ FinContratBlock
    \/ OtherBlock
    \/ ReturnDeclaration

SpecDsn == DsnInit /\ [][DsnNext]_vars

SpecMetric == MetricInit /\ [][MetricNext]_vars

(***************************************************************************)
(* loadQuestionsFromCsv.  A row object holds the fields read by            *)
(* createQuestionNode: ID, content, relatedQuestion ID ("" when blank) and *)
(* order (the digits of the field, <<>> when blank).  Labels, unit and     *)
(* enums are copied through and take no part in the tree assembly.         *)
(***************************************************************************)
MaxQuestions == 3

QuestionIds   == {"A", "B"}
\* a relatedQuestion ID that names no row
DanglingId    == "Z"
OrderFields   == {<<>>, <<1>>, <<2>>}

CsvRow == [ID : QuestionIds, content : {"number"},
           relatedQuestionID : {""} \cup QuestionIds \cup {DanglingId},
           order : OrderFields]

\* parseInt(field, 10) || 0 : NaN for a blank field, hence 0
RECURSIVE DecimalValue(_)
DecimalValue(digits) ==
    IF digits = <<>> THEN 0
    ELSE 10 * DecimalValue(SubSeq(digits, 1, Len(digits) - 1)) + digits[Len(digits)]

ParseOrder(field) == IF field = <<>> THEN 0 ELSE DecimalValue(field)

createQuestionNode(row) ==
    [id       |-> row.ID,
     content  |-> row.content,
     parentId |-> IF row.relatedQuestionID = "" THEN UNDEF ELSE row.relatedQuestionID,
     order    |-> ParseOrder(row.order)]

\* Step 1: dataLines.map(... createQuestionNode(row))
FlatQuestions(rws) == [i \in DOMAIN rws |-> createQuestionNode(rws[i])]

\* First pass: questionMap.set(q.id, q) for every q in file order; a later
\* row with the same id replaces the earlier one
IndexNodes(flat) ==
    [id \in {flat[i].id : i \in DOMAIN flat} |->
        CHOOSE i \in DOMAIN flat :
            /\ flat[i].id = id
            /\ \A j \in DOMAIN flat : flat[j].id = id => j <= i]

\* q.parentId && questionMap.has(q.parentId)
HasParent(q, qmap) == q.parentId # UNDEF /\ q.parentId \in DOMAIN qmap

\* the second pass attaching a row only to a parent that stands before it in
\* the file
RECURSIVE BuildHierarchy_ParentFirst(_, _, _, _)
BuildHierarchy_ParentFirst(flat, qmap, i, acc) ==
    IF i > Len(flat) THEN acc
    ELSE LET q == flat[i]
         IN  IF HasParent(q, qmap) /\ qmap[q.parentId] < i
             THEN BuildHierarchy_ParentFirst(flat, qmap, i + 1,
                      [acc EXCEPT !.children[qmap[q.parentId]] = Append(@, i)])
             ELSE BuildHierarchy_ParentFirst(flat, qmap, i + 1,
                      [acc EXCEPT !.roots = Append(@, i)])

\* Second pass, rows i..Len(flat): push q on its parent's children or on roots
RECURSIVE BuildHierarchy(_, _, _, _)
BuildHierarchy(flat, qmap, i, acc) ==
    IF i > Len(flat) THEN acc
    ELSE LET q == flat[i]
         IN  IF HasParent(q, qmap)
             THEN BuildHierarchy(flat, qmap, i + 1,
                      [acc EXCEPT !.children[qmap[q.parentId]] = Append(@, i)])
             ELSE BuildHierarchy(flat, qmap, i + 1,
                      [acc EXCEPT !.roots = Append(@, i)])

\* Array.prototype.sort((a, b) => a.order - b.order) is stable: insert each
\* element after the elements that do not compare greater
RECURSIVE InsertByOrder(_, _, _)
InsertByOrder(flat, sorted, n) ==
    IF sorted = <<>> THEN <<n>>
    ELSE IF flat[sorted[Len(sorted)]].order - flat[n].order <= 0
         THEN Append(sorted, n)
         ELSE Append(InsertByOrder(flat, SubSeq(sorted, 1, Len(sorted) - 1), n),
                     sorted[Len(sorted)])

RECURSIVE SortByOrder(_, _)
SortByOrder(flat, list) ==
    IF list = <<>> THEN <<>>
    ELSE InsertByOrder(flat, SortByOrder(flat, SubSeq(list, 1, Len(list) - 1)),
                       list[Len(list)])

\* sortChildren(node): sort node.children, then sortChildren each child
RECURSIVE sortChildren(_, _, _)
RECURSIVE SortEach(_, _, _, _)
sortChildren(flat, ch, node) ==
    LET sorted == [ch EXCEPT ![node] = SortByOrder(flat, ch[node])]
    IN  SortEach(flat, sorted, sorted[node], 1)

\* list.forEach(sortChildren), from position k on
SortEach(flat, ch, list, k) ==
    IF k > Len(list) THEN ch
    ELSE SortEach(flat, sortChildren(flat, ch, list[k]), list, k + 1)

\* loadQuestionsFromCsv from the row objects on: the returned roots and the
\* children lists, with the flat list and the index they were built from
LoadQuestions(rws) ==
    LET flat  == FlatQuestions(rws)
        qmap  == IndexNodes(flat)
        built == BuildHierarchy(flat, qmap, 1,
                     [roots |-> <<>>, children |-> [i \in DOMAIN flat |-> <<>>]])
    IN  [flatQuestions |-> flat,
         questionMap   |-> qmap,
         roots         |-> built.roots,
         children      |-> SortEach(flat, built.children, built.roots, 1)]

loadQuestionsFromCsv ==
    /\ loaderPc = "start"
    /\ LET loaded == LoadQuestions(csvRows)
       IN  /\ flatQuestions' = loaded.flatQuestions
           /\ questionMap' = loaded.questionMap
           /\ children' = loaded.children
           /\ roots' = loaded.roots
    /\ loaderPc' = "done"
    /\ UNCHANGED <<csvRows, csvFile, loadError, dsnVars, metricVars, answerVars, formVars, uploadVars>>

\* lines.length < 2 throws: a catalogue that loads has at least one data row
LoaderInit ==
    /\ content = <<>> /\ parseError = "none"
    /\ initialAnswers = <<>> /\ manualAnswerChanges = <<>> /\ collapsedSections = <<>>
    /\ upload = <<>> /\ response = <<>>
    /\ csvFile = <<>> /\ loadError = NoLoadError
    /\ csvRows \in {rws \in SeqsUpTo(CsvRow, MaxQuestions) : Len(rws) >= 1}
    /\ flatQuestions = <<>> /\ questionMap = <<>>
    /\ children = <<>> /\ roots = <<>> /\ loaderPc = "start"
    /\ rows = <<>> /\ index = 1 /\ declaration = EmptyDeclaration /\ dsnPc = "idle"
    /\ employees = <<>> /\ period = [start |-> 1, end |-> 1]
    /\ result = [op |-> "none", value |-> 0]
    /\ questionTree = <<>> /\ answers = <<>> /\ answersPc = "idle"

LoaderNext ==
    \/ loadQuestionsFromCsv

SpecLoader == LoaderInit /\ [][LoaderNext]_vars

(***************************************************************************)
(* computeAnswers.  An Answer is { value, source, explanation }; value is  *)
(* <<>> for null and <<n>> for a number (tenths for an average headcount); *)
(* the explanation is text built from the same numbers and is left out.    *)
(***************************************************************************)
MaxNodes            == 2
MaxAnswerEmployees  == 1

\* null in a string-typed Employee field (gender, pcsEse)
NullAttr == "<null>"

NumberOf(n) == <<n>>

Put(ans, key, answer) ==
    [k \in (DOMAIN ans) \cup {key} |-> IF k = key THEN answer ELSE ans[k]]

\* groupByAttribute: the key of one employee; normalizeEmployees yields no
\* blank string, so key.trim() === "" only repeats the test for ""
GroupKey(emp, attribute) ==
    IF emp[attribute] = NullAttr \/ emp[attribute] = "" THEN "unknown" ELSE emp[attribute]

groupByAttribute(emps, attribute) ==
    [key \in {GroupKey(emps[i], attribute) : i \in DOMAIN emps} |->
        LET InGroup(emp) == GroupKey(emp, attribute) = key
        IN  SelectSeq(emps, InGroup)]

\* processContractGenderTable: the composite groups gender_pcsEse
CompositeKey(emp) ==
    (IF emp.gender = NullAttr \/ emp.gender = "" THEN "unknown" ELSE emp.gender)
    \o "_" \o
    (IF emp.pcsEse = NullAttr \/ emp.pcsEse = "" THEN "unknown" ELSE emp.pcsEse)

contractGenderGroups(emps) ==
    [key \in {CompositeKey(emps[i]) : i \in DOMAIN emps} |->
        LET InGroup(emp) == CompositeKey(emp) = key
        IN  SelectSeq(emps, InGroup)]

\* for (const child of tableNode.children), from position k on: the child
\* named endId gets the headcount at period end of the group, the child
\* named avgId its average headcount, under `${child.id}_${key}`
RECURSIVE ChildAnswers(_, _, _, _, _, _, _, _, _)
ChildAnswers(tree, list, k, key, groupEmployees, endId, avgId, p, ans) ==
    IF k > Len(list) THEN ans
    ELSE LET child    == tree.flatQuestions[list[k]]
             answerId == child.id \o "_" \o key
             ans2 ==
                IF child.id = endId
                THEN Put(ans, answerId,
                         [value  |-> NumberOf(computeHeadcountAtPeriodEnd(groupEmployees, p.end).value),
                          source |-> "computed"])
                ELSE IF child.id = avgId
                THEN Put(ans, answerId,
                         [value  |-> NumberOf(computeAverageHeadcount(groupEmployees, p).value),
                          source |-> "computed"])
                ELSE ans
         IN  ChildAnswers(tree, list, k + 1, key, groupEmployees, endId, avgId, p, ans2)

\* for (const [key, groupEmployees] of Object.entries(groups)), keys still
\* to visit in `keys`; two groups never write the same answer id, so the
\* order of the entries does not show in the result
RECURSIVE GroupAnswers(_, _, _, _, _, _, _, _, _)
GroupAnswers(tree, tableNode, groups, keys, skipKey, endId, avgId, p, ans) ==
    IF keys = {} THEN ans
    ELSE LET key  == CHOOSE x \in keys : TRUE
             ans2 == IF key = skipKey THEN ans
                     ELSE ChildAnswers(tree, tree.children[tableNode], 1, key,
                                       groups[key], endId, avgId, p, ans)
         IN  GroupAnswers(tree, tableNode, groups, keys \ {key}, skipKey,
                          endId, avgId, p, ans2)

processCountryTable(tree, tableNode, emps, p, ans) ==
    LET countryGroups == groupByAttribute(emps, "country")
    IN  GroupAnswers(tree, tableNode, countryGroups, DOMAIN countryGroups,
                     "unknown", "S1-6_05", "S1-6_06", p, ans)

processContractGenderTable(tree, tableNode, emps, p, ans) ==
    LET groups == contractGenderGroups(emps)
    IN  GroupAnswers(tree, tableNode, groups, DOMAIN groups,
                     "unknown_unknown", "K_718", "K_719", p, ans)

processRegionTable(tree, tableNode, emps, p, ans) ==
    LET regionGroups == groupByAttribute(emps, "country")
    IN  GroupAnswers(tree, tableNode, regionGroups, DOMAIN regionGroups,
                     "unknown", "S1-6_09", "S1-6_10", p, ans)

processCategoryTable(tree, tableNode, emps, p, ans) ==
    LET categoryGroups == groupByAttribute(emps, "pcsEse")
    IN  GroupAnswers(tree, tableNode, categoryGroups, DOMAIN categoryGroups,
                     "unknown", "S1-6_19", "S1-6_20", p, ans)

processTableQuestion(tree, tableNode, emps, p, ans) ==
    LET id == tree.flatQuestions[tableNode].id
    IN  CASE id = "S1-6_04" -> processCountryTable(tree, tableNode, emps, p, ans)
          [] id = "S1-6_07" -> processContractGenderTable(tree, tableNode, emps, p, ans)
          [] id = "S1-6_08" -> processRegionTable(tree, tableNode, emps, p, ans)
          [] id = "S1-6_18" -> processCategoryTable(tree, tableNode, emps, p, ans)
          [] OTHER          -> ans

SectionHeaderIds == {"S1-6_01", "S1-6_13"}
ManualIds        == {"S1-6_14", "S1-6_15", "S1-6_16", "S1-6_17"}

\* processRegularQuestion with the manual placeholder marked as computed
processRegularQuestion_ManualComputed(tree, node, emps, p, ans) ==
    LET id == tree.flatQuestions[node].id
    IN  IF id \in SectionHeaderIds THEN ans
        ELSE IF id \in ManualIds
        THEN Put(ans, id, [value |-> Null, source |-> "computed"])
        ELSE ans

processRegularQuestion(tree, node, emps, p, ans) ==
    LET id == tree.flatQuestions[node].id
    IN  IF id \in SectionHeaderIds THEN ans
        ELSE IF id \in ManualIds
        THEN Put(ans, id, [value |-> Null, source |-> "manual"])
        ELSE CASE id = "S1-6_02" ->
                    Put(ans, id, [value  |-> NumberOf(computeHeadcountAtPeriodEnd(emps, p.end).value),
                                  source |-> "computed"])
               [] id = "S1-6_03" ->
                    Put(ans, id, [value  |-> NumberOf(computeAverageHeadcount(emps, p).value),
                                  source |-> "computed"])
               [] id = "S1-6_11" ->
                    Put(ans, id, [value  |-> NumberOf(computeLeavers(emps, p).value),
                                  source |-> "computed"])
               [] id = "S1-6_12" ->
                    Put(ans, id, [value  |-> NumberOf(computeTurnoverRate(emps, p).value),
                                  source |-> "computed"])
               [] OTHER -> ans

\* processQuestionNodes over nodes[k..]: the node itself, then its children
RECURSIVE processQuestionNodes(_, _, _, _, _, _)
processQuestionNodes(tree, nodes, k, emps, p, ans) ==
    IF k > Len(nodes) THEN ans
    ELSE LET node == nodes[k]
             own  == IF tree.flatQuestions[node].content = "Table"
                     THEN processTableQuestion(tree, node, emps, p, ans)
                     ELSE processRegularQuestion(tree, node, emps, p, ans)
             sub  == processQuestionNodes(tree, tree.children[node], 1, emps, p, own)
         IN  processQuestionNodes(tree, nodes, k + 1, emps, p, sub)

\* employees and period are what normalizeEmployees and
\* extractReportingPeriod returned for the declaration
computeAnswers ==
    /\ answersPc = "start"
    /\ answers' = processQuestionNodes(questionTree, questionTree.roots, 1,
                                       employees, period, <<>>)
    /\ answersPc' = "done"
    /\ UNCHANGED <<questionTree, metricVars, dsnVars, loaderVars, formVars, uploadVars>>

(* The catalogue rows the question trees are loaded from: question ids of  *)
(* the questionnaire under the parent the catalogue gives them.  The ids   *)
(* of a global metric, a table, a table child and a manual question come   *)
(* with every content kind of a container or a number, the other rows with *)
(* the kind the catalogue gives them.                                      *)
CatalogueParent(id) ==
    CASE id = "S1-6_02" -> "S1-6_01"
      [] id = "S1-6_05" -> "S1-6_04"
      [] id = "K_718"   -> "S1-6_07"
      [] id = "S1-6_09" -> "S1-6_08"
      [] id = "S1-6_19" -> "S1-6_18"
      [] id = "S1-6_14" -> "S1-6_13"
      [] id \in {"S1-6_03", "S1-6_11", "S1-6_12"} -> "S1-6_01"
      [] OTHER          -> ""

AnswerIds == {"S1-6_02", "S1-6_07", "K_718", "S1-6_14"}
FixedRows ==
    {[ID |-> "S1-6_04", content |-> "Table"], [ID |-> "S1-6_05", content |-> "number"],
     [ID |-> "S1-6_08", content |-> "Table"], [ID |-> "S1-6_09", content |-> "number"],
     [ID |-> "S1-6_18", content |-> "Table"], [ID |-> "S1-6_19", content |-> "number"],
     [ID |-> "S1-6_13", content |-> ""],
     [ID |-> "S1-6_03", content |-> "number"], [ID |-> "S1-6_11", content |-> "number"],
     [ID |-> "S1-6_12", content |-> "number"]}

AnswerRow ==
    {[ID |-> r.ID, content |-> r.content,
      relatedQuestionID |-> CatalogueParent(r.ID), order |-> <<1>>] :
        r \in [ID : AnswerIds, content : {"", "Table", "number"}] \cup FixedRows}

QuestionTrees ==
    {LET loaded == LoadQuestions(rws)
     IN  [flatQuestions |-> loaded.flatQuestions, roots |-> loaded.roots,
          children |-> loaded.children] :
        rws \in {q \in SeqsUpTo(AnswerRow, MaxNodes) : Len(q) >= 1}}

\* what normalizeEmployees can return: a country or "unknown", a gender or
\* null, a job classification or null
GroupedEmployee ==
    [id : {"e"}, country : {"FR", "unknown"}, birthCountry : {""},
     gender : {"M", NullAttr}, contractStart : {DateOf(1)}, contractEnd : {Null},
     pcsEse : {"3855", NullAttr}]

AnswerInit ==
    /\ content = <<>> /\ parseError = "none"
    /\ initialAnswers = <<>> /\ manualAnswerChanges = <<>> /\ collapsedSections = <<>>
    /\ upload = <<>> /\ response = <<>>
    /\ csvFile = <<>> /\ loadError = NoLoadError
    /\ questionTree \in QuestionTrees
    /\ employees \in SeqsUpTo(GroupedEmployee, MaxAnswerEmployees)
    /\ period = [start |-> 1, end |-> 2]
    /\ answers = <<>>
    /\ answersPc = "start"
    /\ result = [op |-> "none", value |-> 0]
    /\ rows = <<>> /\ index = 1 /\ declaration = EmptyDeclaration /\ dsnPc = "idle"
    /\ csvRows = <<>> /\ flatQuestions = <<>> /\ questionMap = <<>>
    /\ children = <<>> /\ roots = <<>> /\ loaderPc = "idle"

AnswerNext ==
    \/ computeAnswers

SpecAnswer == AnswerInit /\ [][AnswerNext]_vars

(***************************************************************************)
(* extractReportingPeriod.  The text of declaration.mois is a sequence of  *)
(* characters; an absent field is the one-element sequence <<UNDEF>>,      *)
(* which is no text since UNDEF is not a character.                        *)
(***************************************************************************)
MoisAbsent == <<UNDEF>>
DigitChars == {"0", "1", "2", "3", "4", "5", "6", "7", "8", "9"}

DigitOf(c) ==
    CASE c = "0" -> 0 [] c = "1" -> 1 [] c = "2" -> 2 [] c = "3" -> 3 [] c = "4" -> 4
      [] c = "5" -> 5 [] c = "6" -> 6 [] c = "7" -> 7 [] c = "8" -> 8 [] c = "9" -> 9

\* parseInt(text, 10) of a text of digits
RECURSIVE ParseDigits(_)
ParseDigits(text) ==
    IF text = <<>> THEN 0
    ELSE 10 * ParseDigits(SubSeq(text, 1, Len(text) - 1)) + DigitOf(text[Len(text)])

\* /^\d{6,8}$/.test(moisStr)
MatchesPeriodFormat(moisStr) ==
    /\ Len(moisStr) >= 6
    /\ Len(moisStr) <= 8
    /\ \A i \in DOMAIN moisStr : moisStr[i] \in DigitChars

IsLeapYear(year) == (year % 4 = 0 /\ year % 100 # 0) \/ year % 400 = 0

\* new Date(year, month + 1, 0).getDate(), month 0-indexed
LastDayOfMonth(year, month) ==
    IF month = 1 THEN (IF IsLeapYear(year) THEN 29 ELSE 28)
    ELSE IF month \in {3, 5, 8, 10} THEN 30 ELSE 31

NoRange == [year |-> 0, month |-> 0, day |-> 0]

\* the error thrown ("none" on return) and the range returned
extractReportingPeriod(decl) ==
    LET moisStr == decl.mois
    IN  IF moisStr = MoisAbsent
        THEN [error |-> "missing", start |-> NoRange, end |-> NoRange]
        ELSE IF ~MatchesPeriodFormat(moisStr)
        THEN [error |-> "format", start |-> NoRange, end |-> NoRange]
        ELSE LET yyyymm == IF Len(moisStr) = 8 THEN SubSeq(moisStr, 1, 6) ELSE moisStr
                 year   == ParseDigits(SubSeq(yyyymm, 1, 4))
                 month  == ParseDigits(SubSeq(yyyymm, 5, 6)) - 1
             IN  IF year < 1900 \/ year > 2100 \/ month < 0 \/ month > 11
                 THEN [error |-> "range", start |-> NoRange, end |-> NoRange]
                 ELSE [error |-> "none",
                       start |-> [year |-> year, month |-> month, day |-> 1],
                       end   |-> [year |-> year, month |-> month,
                                  day |-> LastDayOfMonth(year, month)]]

ReportingPeriod ==
    /\ result.op = "none"
    /\ result' = [op |-> "extractReportingPeriod",
                  value |-> extractReportingPeriod(declaration)]
    /\ UNCHANGED <<employees, period, dsnVars, loaderVars, answerVars, formVars, uploadVars>>

YearTexts  == {<<"1", "8", "9", "9">>, <<"1", "9", "0", "0">>, <<"2", "0", "2", "4">>,
               <<"2", "1", "0", "0">>, <<"2", "1", "0", "1">>, <<"2", "0", "x", "4">>}
MonthTexts == {<<"0", "0">>, <<"0", "1">>, <<"0", "2">>, <<"1", "2">>, <<"1", "3">>,
               <<"1", "x">>}
TailTexts  == {<<>>, <<"1">>, <<"1", "5">>, <<"1", "5", "0">>, <<"-", "1">>}

\* the values of S20.G00.05.005: absent, empty, a year alone, a year with
\* half a month, and year-month texts with nothing to three characters more
MoisTexts ==
    {MoisAbsent, <<>>}
    \cup YearTexts
    \cup {y \o <<"0">> : y \in YearTexts}
    \cup {y \o m \o t : y \in YearTexts, m \in MonthTexts, t \in TailTexts}

PeriodInit ==
    /\ content = <<>> /\ parseError = "none"
    /\ initialAnswers = <<>> /\ manualAnswerChanges = <<>> /\ collapsedSections = <<>>
    /\ upload = <<>> /\ response = <<>>
    /\ csvFile = <<>> /\ loadError = NoLoadError
    /\ declaration \in {[EmptyDeclaration EXCEPT !.mois = m] : m \in MoisTexts}
    /\ result = [op |-> "none", value |-> 0]
    /\ rows = <<>> /\ index = 1 /\ dsnPc = "idle"
    /\ employees = <<>> /\ period = [start |-> 1, end |-> 1]
    /\ csvRows = <<>> /\ flatQuestions = <<>> /\ questionMap = <<>>
    /\ children = <<>> /\ roots = <<>> /\ loaderPc = "idle"
    /\ questionTree = <<>> /\ answers = <<>> /\ answersPc = "idle"

PeriodNext ==
    \/ ReportingPeriod

SpecPeriod == PeriodInit /\ [][PeriodNext]_vars

(***************************************************************************)
(* parseDsnFile.  A line of the text is what the two readers look at: the  *)
(* block code it starts with (NoCode for a line that starts with none),    *)
(* its rubrique number and value, and whether it has the shape             *)
(* S00.G00.00.000,'...' that DSNFileReader keeps.                          *)
(***************************************************************************)
MaxLines == 3

S10Code == "S10.G00.00"
NoCode  == ""

DsnLine ==
    {l \in [blocCode : BlocCodes \cup {S10Code, NoCode}, valueCode : {<<0, 0, 1>>},
            value : {"a"}, wellFormed : BOOLEAN] :
        l.blocCode = NoCode => ~l.wellFormed}

\* the first four characters of a line that starts with blocCode
BlockPrefix(blocCode) ==
    IF blocCode = S10Code THEN "S10."
    ELSE IF blocCode = HeaderCode THEN "S20."
    ELSE IF blocCode \in BlocCodes THEN "S21."
    ELSE ""

\* hasRequiredBlocks without the test for S21.
hasRequiredBlocks_NoS21(lines) ==
    /\ \E i \in DOMAIN lines : BlockPrefix(lines[i].blocCode) = "S10."
    /\ \E i \in DOMAIN lines : BlockPrefix(lines[i].blocCode) = "S20."

hasRequiredBlocks(lines) ==
    LET hasS10 == \E i \in DOMAIN lines : BlockPrefix(lines[i].blocCode) = "S10."
        hasS20 == \E i \in DOMAIN lines : BlockPrefix(lines[i].blocCode) = "S20."
        hasS21 == \E i \in DOMAIN lines : BlockPrefix(lines[i].blocCode) = "S21."
    IN  hasS10 /\ hasS20 /\ hasS21

\* DSNFileReader: one row per line of the expected shape, in file order
RECURSIVE DSNFileReader(_)
DSNFileReader(lines) ==
    IF lines = <<>> THEN <<>>
    ELSE LET row  == lines[Len(lines)]
             rest == DSNFileReader(SubSeq(lines, 1, Len(lines) - 1))
         IN  IF row.wellFormed
             THEN Append(rest, [blocCode |-> row.blocCode, valueCode |-> row.valueCode,
                                value |-> row.value])
             ELSE rest

\* Step 1 of parseDsnFile: the conformity check
ConformityCheck ==
    /\ dsnPc = "precheck"
    /\ IF hasRequiredBlocks(content)
       THEN dsnPc' = "read" /\ parseError' = "none"
       ELSE dsnPc' = "threw" /\ parseError' = "Invalid DSN: missing required S10, S20, or S21 block."
    /\ UNCHANGED <<content, rows, index, declaration, metricVars, loaderVars, answerVars, formVars, uploadVars>>

\* Step 2: DSNFileReader, then DSNDataReader starts on its rows
ReadFile ==
    /\ dsnPc = "read"
    /\ rows' = DSNFileReader(content)
    /\ index' = 1
    /\ declaration' = EmptyDeclaration
    /\ dsnPc' = "scan"
    /\ UNCHANGED <<content, parseError, metricVars, loaderVars, answerVars, formVars, uploadVars>>

\* after DSNDataReader has returned: if (!declaration.validStatement) throw
ValidStatementCheck ==
    /\ dsnPc = "done"
    /\ IF declaration.validStatement
       THEN dsnPc' = "returned" /\ parseError' = "none"
       ELSE dsnPc' = "threw" /\ parseError' = "DSN contains structural errors."
    /\ UNCHANGED <<content, rows, index, declaration, metricVars, loaderVars, answerVars, formVars, uploadVars>>

ParseInit ==
    /\ content \in SeqsUpTo(DsnLine, MaxLines)
    /\ parseError = "none"
    /\ dsnPc = "precheck"
    /\ rows = <<>> /\ index = 1 /\ declaration = EmptyDeclaration
    /\ employees = <<>> /\ period = [start |-> 1, end |-> 1]
    /\ result = [op |-> "none", value |-> 0]
    /\ csvRows = <<>> /\ flatQuestions = <<>> /\ questionMap = <<>>
    /\ children = <<>> /\ roots = <<>> /\ loaderPc = "idle"
    /\ questionTree = <<>> /\ answers = <<>> /\ answersPc = "idle"
    /\ initialAnswers = <<>> /\ manualAnswerChanges = <<>> /\ collapsedSections = <<>>
    /\ upload = <<>> /\ response = <<>>
    /\ csvFile = <<>> /\ loadError = NoLoadError

ParseNext ==
    \/ ConformityCheck
    \/ ReadFile
    \/ HeaderBlock
    \/ EntrepriseBlock
    \/ EtablissementBlock
    \/ IndividuBlock
    \/ ContratBlock
    \/ FinContratBlock
    \/ OtherBlock
    \/ ReturnDeclaration
    \/ ValidStatementCheck

SpecParse == ParseInit /\ [][ParseNext]_vars

(***************************************************************************)
(* DSNDataReader on longer files of one-row blocks: every row is rubrique  *)
(* 001 of its block, so that several establishments and individuals fit.   *)
(***************************************************************************)
MaxBlocks == 5

BlockRow == [blocCode : BlocCodes, valueCode : {<<0, 0, 1>>}, value : {"a"}]

BlocksInit ==
    /\ rows \in SeqsUpTo(BlockRow, MaxBlocks)
    /\ index = 1
    /\ declaration = EmptyDeclaration
    /\ dsnPc = "scan"
    /\ content = <<>> /\ parseError = "none"
    /\ employees = <<>> /\ period = [start |-> 1, end |-> 1]
    /\ result = [op |-> "none", value |-> 0]
    /\ csvRows = <<>> /\ flatQuestions = <<>> /\ questionMap = <<>>
    /\ children = <<>> /\ roots = <<>> /\ loaderPc = "idle"
    /\ questionTree = <<>> /\ answers = <<>> /\ answersPc = "idle"
    /\ initialAnswers = <<>> /\ manualAnswerChanges = <<>> /\ collapsedSections = <<>>
    /\ upload = <<>> /\ response = <<>>
    /\ csvFile = <<>> /\ loadError = NoLoadError

SpecDsnBlocks == BlocksInit /\ [][DsnNext]_vars

(***************************************************************************)
(* DSNDataReader run to its end: the while loop keeps iterating as long as *)
(* its condition holds, so a step that is possible is eventually taken.    *)
(* Termination depends on block and sequence codes only; rows carry one    *)
(* value.                                                                  *)
(***************************************************************************)
MaxScanRows == 3

ScanRow == [blocCode : BlocCodes, valueCode : ValueCodes, value : {"a"}]

ScanInit ==
    /\ rows \in SeqsUpTo(ScanRow, MaxScanRows)
    /\ index = 1
    /\ declaration = EmptyDeclaration
    /\ dsnPc = "scan"
    /\ content = <<>> /\ parseError = "none"
    /\ employees = <<>> /\ period = [start |-> 1, end |-> 1]
    /\ result = [op |-> "none", value |-> 0]
    /\ csvRows = <<>> /\ flatQuestions = <<>> /\ questionMap = <<>>
    /\ children = <<>> /\ roots = <<>> /\ loaderPc = "idle"
    /\ questionTree = <<>> /\ answers = <<>> /\ answersPc = "idle"
    /\ initialAnswers = <<>> /\ manualAnswerChanges = <<>> /\ collapsedSections = <<>>
    /\ upload = <<>> /\ response = <<>>
    /\ csvFile = <<>> /\ loadError = NoLoadError

SpecScan == ScanInit /\ [][DsnNext]_vars /\ WF_vars(DsnNext)

(***************************************************************************)
(* normalizeEmployees.  A date text (dateDebut, dateFin) is a sequence of  *)
(* characters, <<UNDEF>> when the field is undefined; a Date is            *)
(* DateOf(yyyymmdd), which orders Dates as time does.  The other fields    *)
(* are strings, UNDEF when undefined.                                      *)
(***************************************************************************)
MaxEtablissements == 2
MaxIndividus      == 2

NoText == <<UNDEF>>

\* the validation accepting every day number up to 31 in every month
IsCalendarDate_AnyDayTo31(year, month, day) ==
    /\ year >= 100
    /\ month >= 0 /\ month <= 11
    /\ day >= 1 /\ day <= 31

\* new Date(year, month, day) gives back year, month and day: the day exists
\* in that month, and the year is not one of 0..99, which Date moves to 19xx
IsCalendarDate(year, month, day) ==
    /\ year >= 100
    /\ month >= 0 /\ month <= 11
    /\ day >= 1 /\ day <= LastDayOfMonth(year, month)

parseDsnDate(dsnDateStr) ==
    IF ~(Len(dsnDateStr) = 8 /\ \A i \in DOMAIN dsnDateStr : dsnDateStr[i] \in DigitChars)
    THEN Null
    ELSE LET year  == ParseDigits(SubSeq(dsnDateStr, 1, 4))
             month == ParseDigits(SubSeq(dsnDateStr, 5, 6)) - 1
             day   == ParseDigits(SubSeq(dsnDateStr, 7, 8))
         IN  IF IsCalendarDate(year, month, day)
             THEN DateOf(year * 10000 + (month + 1) * 100 + day)
             ELSE Null

\* sexeCode.padStart(2, '0') on the codes in use
PadStart2(sexeCode) ==
    CASE sexeCode = "1" -> "01"
      [] sexeCode = "2" -> "02"
      [] OTHER -> sexeCode

parseGender(sexeCode) ==
    IF sexeCode = UNDEF \/ sexeCode = "" THEN NullAttr
    ELSE IF PadStart2(sexeCode) = "01" THEN "M"
    ELSE IF PadStart2(sexeCode) = "02" THEN "F"
    ELSE NullAttr

\* contract?.dateDebut ? parseDsnDate(contract.dateDebut) : null
DateField(text) ==
    IF text = NoText \/ text = <<>> THEN Null ELSE parseDsnDate(text)

\* value || fallback for a string field
OrElse(value, fallback) ==
    IF value = UNDEF \/ value = "" THEN fallback ELSE value

\* the Employee pushed for one individu; the contract read is the first one
EmployeeOf_FirstContract(etablissement, individu) ==
    LET hasContract == Len(individu.contrats) > 0
        contract    == individu.contrats[1]
    IN  [id            |-> OrElse(individu.identifiant, ""),
         country       |-> OrElse(etablissement.countryCode, "unknown"),
         birthCountry  |-> "",
         gender        |-> parseGender(individu.sexe),
         contractStart |-> IF hasContract THEN DateField(contract.dateDebut) ELSE Null,
         contractEnd   |-> IF hasContract THEN DateField(contract.dateFin) ELSE Null,
         pcsEse        |-> IF hasContract THEN OrElse(contract.pcsEse, NullAttr) ELSE NullAttr]

\* the Employee pushed for one individu; Individu has no pays field, so
\* individu.pays || "" is ""
EmployeeOf(etablissement, individu) ==
    LET hasContract == Len(individu.contrats) > 0
        contract    == individu.contrats[Len(individu.contrats)]
    IN  [id            |-> OrElse(individu.identifiant, ""),
         country       |-> OrElse(etablissement.countryCode, "unknown"),
         birthCountry  |-> "",
         gender        |-> parseGender(individu.sexe),
         contractStart |-> IF hasContract THEN DateField(contract.dateDebut) ELSE Null,
         contractEnd   |-> IF hasContract THEN DateField(contract.dateFin) ELSE Null,
         pcsEse        |-> IF hasContract THEN OrElse(contract.pcsEse, NullAttr) ELSE NullAttr]

\* for (const individu of individus), from position k on
RECURSIVE PushIndividus(_, _, _)
PushIndividus(etablissement, k, emps) ==
    IF k > Len(etablissement.individus) THEN emps
    ELSE PushIndividus(etablissement, k + 1,
                       Append(emps, EmployeeOf(etablissement, etablissement.individus[k])))

\* for (const etablissement of etablissements), from position k on
RECURSIVE PushEtablissements(_, _, _)
PushEtablissements(etablissements, k, emps) ==
    IF k > Len(etablissements) THEN emps
    ELSE PushEtablissements(etablissements, k + 1,
                            PushIndividus(etablissements[k], 1, emps))

normalizeEmployees(decl) == PushEtablissements(Etablissements(decl), 1, <<>>)

NormalizeEmployees ==
    /\ result.op = "none"
    /\ employees' = normalizeEmployees(declaration)
    /\ result' = [op |-> "normalizeEmployees", value |-> 0]
    /\ UNCHANGED <<period, dsnVars, loaderVars, answerVars, formVars, uploadVars>>

\* contracts as DSNDataReader builds them, with the three fields read here
ContratWith(dateDebut, dateFin, pcsEse) ==
    [NewContrat(<<>>) EXCEPT !.dateDebut = dateDebut, !.dateFin = dateFin,
                             !.pcsEse = pcsEse]

OpenContrat   == ContratWith(<<"2", "0", "2", "4", "0", "1", "0", "1">>, NoText, "3855")
ClosedContrat == ContratWith(<<"2", "0", "2", "4", "0", "2", "0", "1">>, <<"2", "0", "2", "4", "0", "2", "1", "5">>, UNDEF)

IndividuWith(identifiant, sexe, contrats) ==
    [NewIndividu(<<>>) EXCEPT !.identifiant = identifiant, !.sexe = sexe,
                              !.contrats = contrats]

SampleIndividus ==
    {IndividuWith("i1", "1", <<>>),
     IndividuWith("i2", "02", <<OpenContrat, ClosedContrat>>)}

SampleEtablissements ==
    {[NewEtablissement(<<>>) EXCEPT !.countryCode = c, !.individus = inds] :
        c \in {"FR", UNDEF}, inds \in SeqsUpTo(SampleIndividus, MaxIndividus)}

SampleDeclarations ==
    {EmptyDeclaration, ApplyEntreprise(EmptyDeclaration, <<>>)}
    \cup {[EmptyDeclaration EXCEPT !.entreprise =
              [NoEntreprise EXCEPT !.defined = TRUE, !.hasEtablissements = TRUE,
                                   !.etablissements = etabs]] :
            etabs \in SeqsUpTo(SampleEtablissements, MaxEtablissements)}

NormalizeInit ==
    /\ declaration \in SampleDeclarations
    /\ employees = <<>>
    /\ result = [op |-> "none", value |-> 0]
    /\ period = [start |-> 1, end |-> 1]
    /\ rows = <<>> /\ index = 1 /\ dsnPc = "idle"
    /\ content = <<>> /\ parseError = "none"
    /\ csvRows = <<>> /\ flatQuestions = <<>> /\ questionMap = <<>>
    /\ children = <<>> /\ roots = <<>> /\ loaderPc = "idle"
    /\ questionTree = <<>> /\ answers = <<>> /\ answersPc = "idle"
    /\ initialAnswers = <<>> /\ manualAnswerChanges = <<>> /\ collapsedSections = <<>>
    /\ upload = <<>> /\ response = <<>>
    /\ csvFile = <<>> /\ loadError = NoLoadError

NormalizeNext ==
    \/ NormalizeEmployees

SpecNormalize == NormalizeInit /\ [][NormalizeNext]_vars

(***************************************************************************)
(* parseDsnDate, reached through normalizeEmployees: the Declaration holds *)
(* one establishment with one individual with one contract, whose start    *)
(* date is the token.                                                      *)
(***************************************************************************)
DateYears  == {<<"2", "0", "2", "5">>, <<"2", "0", "2", "4">>, <<"1", "9", "0", "0">>,
               <<"0", "0", "5", "0">>, <<"2", "0", "x", "5">>}
DateMonths == {<<"0", "0">>, <<"0", "1">>, <<"0", "2">>, <<"0", "4">>, <<"1", "1">>,
               <<"1", "2">>, <<"1", "3">>}
DateDays   == {<<"0", "0">>, <<"0", "1">>, <<"2", "8">>, <<"2", "9">>, <<"3", "0">>,
               <<"3", "1">>, <<"3", "2">>}

\* tokens of 8 characters, of 9, of 7, of 6, and the empty token
DateTokens ==
    {y \o m \o dd : y \in DateYears, m \in DateMonths, dd \in DateDays}
    \cup {y \o m \o dd \o <<"0">> : y \in DateYears, m \in DateMonths, dd \in DateDays}
    \cup {y \o m \o <<"1">> : y \in DateYears, m \in DateMonths}
    \cup {y \o m : y \in DateYears, m \in DateMonths}
    \cup {<<>>}

DateInit ==
    /\ declaration \in
          {[EmptyDeclaration EXCEPT !.entreprise =
              [NoEntreprise EXCEPT
                  !.defined = TRUE, !.hasEtablissements = TRUE,
                  !.etablissements =
                      <<[NewEtablissement(<<>>) EXCEPT
                            !.individus =
                                <<IndividuWith("i1", "1",
                                      <<ContratWith(token, NoText, UNDEF)>>)>>]>>]] :
            token \in DateTokens}
    /\ employees = <<>>
    /\ result = [op |-> "none", value |-> 0]
    /\ period = [start |-> 1, end |-> 1]
    /\ rows = <<>> /\ index = 1 /\ dsnPc = "idle"
    /\ content = <<>> /\ parseError = "none"
    /\ csvRows = <<>> /\ flatQuestions = <<>> /\ questionMap = <<>>
    /\ children = <<>> /\ roots = <<>> /\ loaderPc = "idle"
    /\ questionTree = <<>> /\ answers = <<>> /\ answersPc = "idle"
    /\ initialAnswers = <<>> /\ manualAnswerChanges = <<>> /\ collapsedSections = <<>>
    /\ upload = <<>> /\ response = <<>>
    /\ csvFile = <<>> /\ loadError = NoLoadError

DateNext ==
    \/ NormalizeEmployees

SpecDate == DateInit /\ [][DateNext]_vars

(***************************************************************************)
(* loadQuestionsFromCsv from the file on: validation, row objects, tree.   *)
(* A line of the file is the list of its fields after split(';'), <<>> for *)
(* a blank line.                                                           *)
(***************************************************************************)
MaxDataLines == 2

Columns == <<"ID", "question label en", "content", "relatedQuestion ID", "order">>
REQUIRED_CSV_FIELDS == <<"ID", "question label en", "content", "order">>

\* lines.filter(line => line.length > 0)
RECURSIVE NonBlank(_)
NonBlank(lines) ==
    IF lines = <<>> THEN <<>>
    ELSE IF lines[1] = <<>> THEN NonBlank(Tail(lines))
    ELSE <<lines[1]>> \o NonBlank(Tail(lines))

Includes(headers, field) == \E k \in DOMAIN headers : headers[k] = field

\* ValidateCatalogue numbering the data rows from 0
ValidateCatalogue_RowZeroBased(file) ==
    LET lines     == NonBlank(file)
        headers   == lines[1]
        dataLines == Tail(lines)
        missing   == {f \in DOMAIN REQUIRED_CSV_FIELDS :
                         ~Includes(headers, REQUIRED_CSV_FIELDS[f])}
        badRows   == {r \in DOMAIN dataLines : Len(dataLines[r]) # Len(headers)}
        Min(S)    == CHOOSE x \in S : \A y \in S : x <= y
    IN  IF Len(lines) < 2
        THEN [kind |-> "too-few-lines", column |-> "", row |-> 0]
        ELSE IF missing # {}
        THEN [kind |-> "missing-column", column |-> REQUIRED_CSV_FIELDS[Min(missing)],
              row |-> 0]
        ELSE IF badRows # {}
        THEN [kind |-> "field-count", column |-> "", row |-> Min(badRows) - 1]
        ELSE NoLoadError

\* The first failing check, in the order the code makes them
ValidateCatalogue(file) ==
    LET lines     == NonBlank(file)
        headers   == lines[1]
        dataLines == Tail(lines)
        missing   == {f \in DOMAIN REQUIRED_CSV_FIELDS :
                         ~Includes(headers, REQUIRED_CSV_FIELDS[f])}
        badRows   == {r \in DOMAIN dataLines : Len(dataLines[r]) # Len(headers)}
        Min(S)    == CHOOSE x \in S : \A y \in S : x <= y
    IN  IF Len(lines) < 2
        THEN [kind |-> "too-few-lines", column |-> "", row |-> 0]
        ELSE IF missing # {}
        THEN [kind |-> "missing-column", column |-> REQUIRED_CSV_FIELDS[Min(missing)],
              row |-> 0]
        ELSE IF badRows # {}
        THEN [kind |-> "field-count", column |-> "", row |-> Min(badRows)]
        ELSE NoLoadError

\* createRowObject(headers, values), read at the columns createQuestionNode
\* uses; a column absent from the header reads as undefined, which
\* createQuestionNode treats as ""
RowField(headers, values, column) ==
    IF Includes(headers, column)
    THEN values[CHOOSE k \in DOMAIN headers :
                    headers[k] = column /\ \A j \in DOMAIN headers :
                                              headers[j] = column => j <= k]
    ELSE ""

createRowObject(headers, values) ==
    [ID                |-> RowField(headers, values, "ID"),
     content           |-> RowField(headers, values, "content"),
     relatedQuestionID |-> RowField(headers, values, "relatedQuestion ID"),
     order             |-> RowField(headers, values, "order")]

LoadCatalogue ==
    /\ loaderPc = "start"
    /\ LET failure == ValidateCatalogue(csvFile)
           lines   == NonBlank(csvFile)
           rws     == [r \in 1..(Len(lines) - 1) |-> createRowObject(lines[1], lines[r + 1])]
           loaded  == LoadQuestions(rws)
       IN  IF failure.kind # "none"
           THEN /\ loadError' = failure
                /\ loaderPc' = "threw"
                /\ UNCHANGED <<csvRows, flatQuestions, questionMap, children, roots>>
           ELSE /\ csvRows' = rws
                /\ flatQuestions' = loaded.flatQuestions
                /\ questionMap' = loaded.questionMap
                /\ children' = loaded.children
                /\ roots' = loaded.roots
                /\ loaderPc' = "done"
                /\ loadError' = NoLoadError
    /\ UNCHANGED <<csvFile, dsnVars, metricVars, answerVars, formVars, uploadVars>>

\* the sub-lists of Columns, in column order
RECURSIVE SubLists(_)
SubLists(list) ==
    IF list = <<>> THEN {<<>>}
    ELSE LET rest == SubLists(Tail(list))
         IN  rest \cup {<<list[1]>> \o l : l \in rest}

HeaderLines == SubLists(Columns) \ {<<>>}

\* the value a data line has under a column
ColumnValue(column, id, parent) ==
    CASE column = "ID" -> id
      [] column = "relatedQuestion ID" -> parent
      [] column = "content" -> "number"
      [] column = "order" -> <<1>>
      [] OTHER -> "label"

\* data lines written for a header: one value per column, one value short,
\* or one value too many; and the blank line
DataLinesFor(headers) ==
    LET Full(id, parent) == [k \in DOMAIN headers |-> ColumnValue(headers[k], id, parent)]
    IN  {<<>>}
        \cup {Full(id, parent) : id \in QuestionIds, parent \in {"", "A"}}
        \cup {SubSeq(Full(id, ""), 1, Len(headers) - 1) : id \in QuestionIds}
        \cup {Append(Full(id, ""), "extra") : id \in QuestionIds}

CatalogueFiles ==
    {<<>>, << <<>> >>}
    \cup UNION {{<<h>> \o d : d \in SeqsUpTo(DataLinesFor(h), MaxDataLines)} :
                    h \in HeaderLines}

CatalogueInit ==
    /\ csvFile \in CatalogueFiles
    /\ loadError = NoLoadError
    /\ loaderPc = "start"
    /\ csvRows = <<>> /\ flatQuestions = <<>> /\ questionMap = <<>>
    /\ children = <<>> /\ roots = <<>>
    /\ content = <<>> /\ parseError = "none"
    /\ rows = <<>> /\ index = 1 /\ declaration = EmptyDeclaration /\ dsnPc = "idle"
    /\ employees = <<>> /\ period = [start |-> 1, end |-> 1]
    /\ result = [op |-> "none", value |-> 0]
    /\ questionTree = <<>> /\ answers = <<>> /\ answersPc = "idle"
    /\ initialAnswers = <<>> /\ manualAnswerChanges = <<>> /\ collapsedSections = <<>>
    /\ upload = <<>> /\ response = <<>>

CatalogueNext ==
    \/ LoadCatalogue

SpecCatalogue == CatalogueInit /\ [][CatalogueNext]_vars

(***************************************************************************)
(* QuestionnaireForm: the answers received as props and the two pieces of  *)
(* React state.  An Answer here carries its explanation; a field of a      *)
(* manualAnswerChanges entry that was never typed is UNDEF.                *)
(***************************************************************************)
FormKeys    == {"S1-6_02", "S1-6_14", "S1-6_05_FR"}
SectionKeys == {"S1-6_01", "S1-6_13"}
TypedTexts  == {"", "x"}

TextOf(text) == <<text>>

ComputedAnswer == [value |-> NumberOf(5), source |-> "computed", explanation |-> "5 employees"]
ManualAnswer   == [value |-> Null, source |-> "manual", explanation |-> ""]

\* getCurrentAnswer with the user's change looked up first
getCurrentAnswer_UserChangeFirst(questionId) ==
    IF questionId \notin DOMAIN initialAnswers THEN ManualAnswer
    ELSE IF questionId \in DOMAIN manualAnswerChanges
    THEN LET userChange == manualAnswerChanges[questionId]
         IN  [value       |-> IF userChange.value = UNDEF \/ userChange.value = ""
                              THEN Null ELSE TextOf(userChange.value),
              explanation |-> userChange.explanation,
              source      |-> "manual"]
    ELSE initialAnswers[questionId]

getCurrentAnswer(questionId) ==
    IF questionId \notin DOMAIN initialAnswers
    THEN [value |-> Null, source |-> "manual", explanation |-> ""]
    ELSE IF initialAnswers[questionId].source = "computed"
    THEN initialAnswers[questionId]
    ELSE IF questionId \in DOMAIN manualAnswerChanges
    THEN LET userChange == manualAnswerChanges[questionId]
         IN  [value       |-> IF userChange.value = UNDEF \/ userChange.value = ""
                              THEN Null ELSE TextOf(userChange.value),
              explanation |-> userChange.explanation,
              source      |-> "manual"]
    ELSE initialAnswers[questionId]

\* collapsedSections[sectionId] ?? true
isSectionCollapsed(sectionId) ==
    IF sectionId \in DOMAIN collapsedSections THEN collapsedSections[sectionId] ELSE TRUE

\* setManualAnswerChanges(prev => ({...prev, [questionId]: {...prev[questionId], [field]: value}}))
handleManualAnswerChange ==
    \E questionId \in FormKeys, field \in {"value", "explanation"}, value \in TypedTexts :
        LET before == IF questionId \in DOMAIN manualAnswerChanges
                      THEN manualAnswerChanges[questionId]
                      ELSE [value |-> UNDEF, explanation |-> UNDEF]
        IN  /\ manualAnswerChanges' =
                  Put(manualAnswerChanges, questionId, [before EXCEPT ![field] = value])
            /\ UNCHANGED <<initialAnswers, collapsedSections, dsnVars, metricVars,
                           loaderVars, answerVars, uploadVars>>

\* setCollapsedSections(prev => ({...prev, [sectionId]: !prev[sectionId]}))
toggleSection ==
    \E sectionId \in SectionKeys :
        /\ collapsedSections' =
              Put(collapsedSections, sectionId,
                  IF sectionId \in DOMAIN collapsedSections
                  THEN ~collapsedSections[sectionId] ELSE TRUE)
        /\ UNCHANGED <<initialAnswers, manualAnswerChanges, dsnVars, metricVars,
                       loaderVars, answerVars, uploadVars>>

FormInit ==
    /\ initialAnswers \in
          {[k \in D |-> IF k \in ManualIds THEN ManualAnswer ELSE ComputedAnswer] :
              D \in SUBSET FormKeys}
    /\ manualAnswerChanges = <<>>
    /\ collapsedSections = <<>>
    /\ upload = <<>> /\ response = <<>>
    /\ csvFile = <<>> /\ loadError = NoLoadError
    /\ content = <<>> /\ parseError = "none"
    /\ rows = <<>> /\ index = 1 /\ declaration = EmptyDeclaration /\ dsnPc = "idle"
    /\ employees = <<>> /\ period = [start |-> 1, end |-> 1]
    /\ result = [op |-> "none", value |-> 0]
    /\ csvRows = <<>> /\ flatQuestions = <<>> /\ questionMap = <<>>
    /\ children = <<>> /\ roots = <<>> /\ loaderPc = "idle"
    /\ questionTree = <<>> /\ answers = <<>> /\ answersPc = "idle"

FormNext ==
    \/ handleManualAnswerChange
    \/ toggleSection

SpecForm == FormInit /\ [][FormNext]_vars

(***************************************************************************)
(* The upload action.  upload.file is the "dsn" form entry; upload.raised  *)
(* is what parseDsnFile, loadQuestionsFromCsv or computeAnswers throws for *)
(* that request: its class, its message and where it comes from.           *)
(***************************************************************************)
MaxFileSize == 10000000

NoFile == [present |-> FALSE, size |-> 0, txt |-> FALSE]
UploadedFiles ==
    {NoFile} \cup [present : {TRUE}, size : {0, 1, MaxFileSize, MaxFileSize + 1},
                   txt : BOOLEAN]

NothingRaised == [class |-> "none", message |-> "", origin |-> "none"]

\* the errors the pipeline raises on a malformed declaration or catalogue
StructuralErrors ==
    [class : {"Error"}, origin : {"structural"},
     message : {"Invalid DSN: missing required S10, S20, or S21 block.",
                "DSN contains structural errors.",
                "CSV must contain header and at least one data row",
                "Missing reporting period in DSN (S20.G00.05.005). Field not found in parsed declaration.",
                "Invalid period values in DSN"}]

\* runtime and system failures: a TypeError, a RangeError, the Error that
\* readFileSync throws for a missing catalogue file, a thrown non-Error value
InternalErrors ==
    {[class |-> "TypeError", origin |-> "internal",
      message |-> "Cannot read properties of undefined"],
     [class |-> "RangeError", origin |-> "internal",
      message |-> "Maximum call stack size exceeded"],
     [class |-> "Error", origin |-> "internal",
      message |-> "ENOENT: no such file or directory"],
     [class |-> "string", origin |-> "internal", message |-> "thrown string"]}

\* err instanceof Error: Error and its subclasses
InstanceOfError(raised) == raised.class \in {"Error", "TypeError", "RangeError"}

NoResponse == [status |-> 0, error |-> ""]

UploadAction ==
    /\ response = NoResponse
    /\ response' =
          IF ~upload.file.present \/ upload.file.size = 0
          THEN [status |-> 400, error |-> "Please upload a DSN file (.txt)."]
          ELSE IF upload.file.size > MaxFileSize
          THEN [status |-> 400, error |-> "File too large (Maximum size 10MB) "]
          ELSE IF ~upload.file.txt
          THEN [status |-> 400, error |-> "Only .txt files are allowed."]
          ELSE IF upload.raised = NothingRaised
          THEN [status |-> 302, error |-> ""]
          ELSE IF InstanceOfError(upload.raised)
          THEN [status |-> 400, error |-> upload.raised.message]
          ELSE [status |-> 500,
                error |-> "An unexpected error occurred. Please try again later."]
    /\ UNCHANGED <<upload, dsnVars, metricVars, loaderVars, answerVars, formVars>>

UploadInit ==
    /\ upload \in [file : UploadedFiles,
                   raised : {NothingRaised} \cup StructuralErrors \cup InternalErrors]
    /\ response = NoResponse
    /\ initialAnswers = <<>> /\ manualAnswerChanges = <<>> /\ collapsedSections = <<>>
    /\ csvFile = <<>> /\ loadError = NoLoadError
    /\ content = <<>> /\ parseError = "none"
    /\ rows = <<>> /\ index = 1 /\ declaration = EmptyDeclaration /\ dsnPc = "idle"
    /\ employees = <<>> /\ period = [start |-> 1, end |-> 1]
    /\ result = [op |-> "none", value |-> 0]
    /\ csvRows = <<>> /\ flatQuestions = <<>> /\ questionMap = <<>>
    /\ children = <<>> /\ roots = <<>> /\ loaderPc = "idle"
    /\ questionTree = <<>> /\ answers = <<>> /\ answersPc = "idle"

UploadNext ==
    \/ UploadAction

SpecUpload == UploadInit /\ [][UploadNext]_vars

(***************************************************************************)
(* getBloc on its own: any rows, any start index (one past the end         *)
(* included), any block code.                                              *)
(***************************************************************************)
MaxBlocRows == 3

GetBlocRow == [blocCode : {EtablissementCode, IndividuCode},
               valueCode : {<<0, 0, 1>>, <<0, 0, 2>>, <<0, 1, 0>>}, value : Values]

GetBloc ==
    /\ result.op = "none"
    /\ \E i \in 1..(Len(rows) + 1), blocCode \in {EtablissementCode, IndividuCode} :
          result' = [op |-> "getBloc", index |-> i, blocCode |-> blocCode,
                     value |-> getBloc(rows, i, blocCode)]
    /\ UNCHANGED <<employees, period, dsnVars, loaderVars, answerVars, formVars, uploadVars>>

GetBlocInit ==
    /\ rows \in SeqsUpTo(GetBlocRow, MaxBlocRows)
    /\ result = [op |-> "none", value |-> 0]
    /\ index = 1 /\ declaration = EmptyDeclaration /\ dsnPc = "idle"
    /\ content = <<>> /\ parseError = "none"
    /\ employees = <<>> /\ period = [start |-> 1, end |-> 1]
    /\ csvRows = <<>> /\ flatQuestions = <<>> /\ questionMap = <<>>
    /\ children = <<>> /\ roots = <<>> /\ loaderPc = "idle"
    /\ csvFile = <<>> /\ loadError = NoLoadError
    /\ questionTree = <<>> /\ answers = <<>> /\ answersPc = "idle"
    /\ initialAnswers = <<>> /\ manualAnswerChanges = <<>> /\ collapsedSections = <<>>
    /\ upload = <<>> /\ response = <<>>

GetBlocNext ==
    \/ GetBloc

SpecGetBloc == GetBlocInit /\ [][GetBlocNext]_vars

(***************************************************************************)
(* Claims.                                                                 *)
(***************************************************************************)

\* First row after the run getBloc collects from row i
GetBlocEnd(rs, i) ==
    GetBlocLoop(rs, i, rs[i].blocCode, rs[i].valueCode, <<>>).currentIndex

\* C1: after the block starting at row index is handled, the scan resumes at
\* the first row not consumed by that block's Bloc (index plus the length of
\* the run getBloc collects), so a following occurrence of the same block
\* code whose sequence code decreases is dispatched as its own block.
C1_ScanResumesAfterBloc ==
    [][(dsnPc = "scan" /\ index <= Len(rows)) => index' = GetBlocEnd(rows, index)]_vars

\* C2: computeAverageHeadcount(E, period).value is
\* (computeHeadcountAtPeriodStart(E, start).value +
\*  computeHeadcountAtPeriodEnd(E, end).value) / 2, to one decimal.
C2_AverageIsMeanOfStartAndEnd ==
    result.op = "average" =>
        2 * result.value =
            10 * (computeHeadcountAtPeriodStart(employees, period.start).value
                  + computeHeadcountAtPeriodEnd(employees, period.end).value)

\* C3: headcount at period start is the headcount-at-period-end predicate
\* evaluated at the start date.
C3_StartUsesEndPredicate ==
    result.op = "start" =>
        result.value = computeHeadcountAtPeriodEnd(employees, period.start).value

\* C4: computeHeadcountAtPeriodEnd(E, d) counts exactly the employees whose
\* contract start is non-null and <= d and whose contract end is null or
\* strictly greater than d, and the count is between 0 and the size of E.
C4_HeadcountAtPeriodEnd ==
    result.op = "end" =>
        /\ result.value =
              Cardinality({i \in DOMAIN employees :
                  /\ employees[i].contractStart # Null
                  /\ Day(employees[i].contractStart) <= period.end
                  /\ \/ employees[i].contractEnd = Null
                     \/ Day(employees[i].contractEnd) > period.end})
        /\ 0 <= result.value
        /\ result.value <= Len(employees)

\* C4 witness: one employee ends on d, one has no contract start, one ends
\* after d; only the last is counted.
C4_Witness ==
    /\ result.op = "end"
    /\ result.value = 1
    /\ \E i, j, k \in DOMAIN employees :
          /\ employees[i].contractStart = DateOf(period.start)
          /\ employees[i].contractEnd = DateOf(period.end)
          /\ employees[j].contractStart = Null
          /\ employees[k].contractStart = DateOf(period.start)
          /\ employees[k].contractEnd # Null
          /\ Day(employees[k].contractEnd) > period.end

C6_Leavers ==
    result.op = "leavers" =>
        result.value =
            Cardinality({i \in DOMAIN employees :
                /\ employees[i].contractEnd # Null
                /\ period.start <= Day(employees[i].contractEnd)
                /\ Day(employees[i].contractEnd) <= period.end})

\* C6 witness: one employee leaves on period.start, one on period.end, one
\* has no contract end; two leavers.
C6_Witness ==
    /\ result.op = "leavers"
    /\ result.value = 2
    /\ \E i, j, k \in DOMAIN employees :
          /\ employees[i].contractEnd = DateOf(period.start)
          /\ employees[j].contractEnd = DateOf(period.end)
          /\ employees[k].contractEnd = Null

\* The nodes of the returned forest: the roots and their descendants
RECURSIVE Descendants(_, _)
Descendants(ch, frontier) ==
    LET next == frontier \cup UNION {{ch[n][k] : k \in DOMAIN ch[n]} : n \in frontier}
    IN  IF next = frontier THEN frontier ELSE Descendants(ch, next)

ForestNodes == Descendants(children, {roots[k] : k \in DOMAIN roots})

\* list is ascending by order, and equal orders keep the source row order
SortedStable(list) ==
    \A a, b \in DOMAIN list :
        a < b => \/ flatQuestions[list[a]].order < flatQuestions[list[b]].order
                 \/ /\ flatQuestions[list[a]].order = flatQuestions[list[b]].order
                    /\ list[a] < list[b]

\* C7: in the forest returned by loadQuestionsFromCsv every sibling list, the
\* root list as well as every node's children list, is sorted ascending by
\* order, equal orders keeping the source row order.
C7_SiblingsSorted ==
    loaderPc = "done" =>
        /\ SortedStable(roots)
        /\ \A n \in ForestNodes : SortedStable(children[n])

\* C8: no two distinct nodes of the returned forest carry the same id.
C8_UniqueIds ==
    loaderPc = "done" =>
        \A m, n \in ForestNodes :
            m # n => flatQuestions[m].id # flatQuestions[n].id

\* The nodes of the question tree handed to computeAnswers
TreeNodes ==
    Descendants(questionTree.children,
                {questionTree.roots[k] : k \in DOMAIN questionTree.roots})

\* C9: the map returned by computeAnswers has no entry keyed by the id of a
\* section (empty content) or Table node, whatever that id is; a node whose
\* id is also carried by a question node of another kind is left aside.
C9_NoAnswerOnContainer ==
    answersPc = "done" =>
        \A n \in TreeNodes :
            (/\ questionTree.flatQuestions[n].content \in {"", "Table"}
             /\ \A m \in TreeNodes :
                    questionTree.flatQuestions[m].id = questionTree.flatQuestions[n].id
                        => questionTree.flatQuestions[m].content \in {"", "Table"})
                => questionTree.flatQuestions[n].id \notin DOMAIN answers

\* The bucket keys of the employees missing the grouping attribute of the
\* table question tableId
MissingBuckets(tableId) ==
    IF tableId = "S1-6_07"
    THEN {CompositeKey(employees[i]) :
            i \in {j \in DOMAIN employees :
                     employees[j].gender = NullAttr \/ employees[j].pcsEse = NullAttr}}
    ELSE IF tableId = "S1-6_18"
    THEN {GroupKey(employees[i], "pcsEse") :
            i \in {j \in DOMAIN employees : employees[j].pcsEse = NullAttr}}
    ELSE {GroupKey(employees[i], "country") :
            i \in {j \in DOMAIN employees : employees[j].country = "unknown"}}

TableIds == {"S1-6_04", "S1-6_07", "S1-6_08", "S1-6_18"}

\* C10: for each of the four table questions no answer key
\* {childId}_{bucketKey} is produced for the bucket of an employee missing
\* the grouping attribute: unknown country (country and region tables), null
\* job classification (category table), null gender or null job
\* classification (composite table).
C10_MissingAttributeSkipped ==
    answersPc = "done" =>
        \A t \in TreeNodes :
            (/\ questionTree.flatQuestions[t].content = "Table"
             /\ questionTree.flatQuestions[t].id \in TableIds)
                => \A k \in DOMAIN questionTree.children[t] :
                     \A b \in MissingBuckets(questionTree.flatQuestions[t].id) :
                        (questionTree.flatQuestions[questionTree.children[t][k]].id
                            \o "_" \o b) \notin DOMAIN answers

ManualAllowList == {"S1-6_14", "S1-6_15", "S1-6_16", "S1-6_17"}
GlobalMetricIds == {"S1-6_02", "S1-6_03", "S1-6_11", "S1-6_12"}

\* the ids of the visited nodes that are not tables
NonTableIds ==
    {questionTree.flatQuestions[n].id :
        n \in {m \in TreeNodes : questionTree.flatQuestions[m].content # "Table"}}

\* C11: every visited non-table node whose id is in the manual allow-list has
\* under that id an Answer with value null and source manual; every other
\* entry has source computed, and an entry keyed by a bare node id is
\* computed only for the four global metric ids.
C11_ManualPlaceholders ==
    answersPc = "done" =>
        /\ \A id \in NonTableIds \cap ManualAllowList :
              /\ id \in DOMAIN answers
              /\ answers[id] = [value |-> Null, source |-> "manual"]
        /\ \A key \in DOMAIN answers :
              key \notin (NonTableIds \cap ManualAllowList)
                  => answers[key].source = "computed"
        /\ \A n \in TreeNodes :
              LET id == questionTree.flatQuestions[n].id
              IN  (id \in DOMAIN answers /\ answers[id].source = "computed")
                      => id \in GlobalMetricIds

\* C11 witness: a tree with a manual question and a global metric, both
\* answered, the first with the null placeholder
C11_Witness ==
    /\ answersPc = "done"
    /\ "S1-6_14" \in NonTableIds
    /\ answers["S1-6_14"] = [value |-> Null, source |-> "manual"]
    /\ \E id \in GlobalMetricIds :
          id \in DOMAIN answers /\ answers[id].source = "computed"

\* C12: extractReportingPeriod returns a date range if and only if the period
\* field is a text of exactly 6 or exactly 8 digits whose year is in
\* [1900,2100] and whose month is in [1,12]; otherwise it throws.
C12_PeriodAcceptedIff ==
    result.op = "extractReportingPeriod" =>
        LET moisStr == declaration.mois
        IN  (result.value.error = "none")
            <=> /\ moisStr # MoisAbsent
                /\ Len(moisStr) \in {6, 8}
                /\ \A i \in DOMAIN moisStr : moisStr[i] \in DigitChars
                /\ ParseDigits(SubSeq(moisStr, 1, 4)) >= 1900
                /\ ParseDigits(SubSeq(moisStr, 1, 4)) <= 2100
                /\ ParseDigits(SubSeq(moisStr, 5, 6)) >= 1
                /\ ParseDigits(SubSeq(moisStr, 5, 6)) <= 12

\* the text has a line beginning with prefix
HasLineWith(prefix) ==
    \E i \in DOMAIN content : BlockPrefix(content[i].blocCode) = prefix

\* C13: on a text lacking a line beginning with S10., S20. or S21.
\* parseDsnFile throws the missing-required-block error before any row is
\* parsed or any block dispatched; with all three prefixes present the
\* pre-check passes and full parsing runs on the rows of the text.
C13_PreCheckBeforeParsing ==
    /\ [][dsnPc = "precheck" =>
            IF HasLineWith("S10.") /\ HasLineWith("S20.") /\ HasLineWith("S21.")
            THEN dsnPc' = "read" /\ parseError' = "none"
            ELSE /\ dsnPc' = "threw"
                 /\ parseError' = "Invalid DSN: missing required S10, S20, or S21 block."
                 /\ rows' = <<>> /\ index' = 1 /\ declaration' = EmptyDeclaration]_vars
    /\ [][dsnPc = "read" => dsnPc' = "scan" /\ rows' = DSNFileReader(content)]_vars
    /\ [][dsnPc = "threw" => FALSE]_vars
    /\ [](dsnPc \in {"scan", "done", "returned"} =>
            HasLineWith("S10.") /\ HasLineWith("S20.") /\ HasLineWith("S21."))

\* C13 witness: a text with S10 and S20 lines and no S21 line has been
\* rejected with nothing parsed
C13_Witness ==
    /\ dsnPc = "threw"
    /\ HasLineWith("S10.") /\ HasLineWith("S20.") /\ ~HasLineWith("S21.")
    /\ rows = <<>>
    /\ declaration = EmptyDeclaration

\* C14: when an individual block is dispatched, the new Individual is
\* appended to the individuals of the last Establishment of the company; with
\* no Establishment it is dropped and the Declaration is left unchanged; in
\* both cases the scan goes on with later rows and no error is raised.
C14_IndividualWithoutEstablishment ==
    [][(dsnPc = "scan" /\ index <= Len(rows) /\ rows[index].blocCode = IndividuCode) =>
          LET etabs == IF declaration.entreprise.defined
                          /\ declaration.entreprise.hasEtablissements
                       THEN declaration.entreprise.etablissements ELSE <<>>
              last  == Len(etabs)
          IN  /\ IF last > 0
                 THEN declaration' =
                        [declaration EXCEPT
                            !.entreprise.etablissements[last].individus =
                                Append(@, NewIndividu(getBloc(rows, index, IndividuCode)))]
                 ELSE declaration' = declaration
              /\ index' > index
              /\ index' <= Len(rows) + 1
              /\ dsnPc' = "scan"
              /\ parseError' = "none"]_vars

\* C14 witness: the build has completed on rows that start with an individual
\* block and go on with a header, two establishments and an individual; the
\* first individual was dropped, the header read, the last individual
\* attached to the second establishment
C14_Witness ==
    /\ dsnPc = "done"
    /\ Len(rows) >= 2
    /\ rows[1].blocCode = IndividuCode
    /\ rows[Len(rows)].blocCode = IndividuCode
    /\ declaration.nature = "a"
    /\ declaration.entreprise.defined
    /\ Len(declaration.entreprise.etablissements) = 2
    /\ Len(declaration.entreprise.etablissements[1].individus) = 0
    /\ Len(declaration.entreprise.etablissements[2].individus) = 1

\* the <<establishment, individual>> position pairs of a Declaration, in
\* establishment order then individual order
RECURSIVE IndividuPositions(_, _)
IndividuPositions(etabs, e) ==
    IF e > Len(etabs) THEN <<>>
    ELSE [i \in 1..Len(etabs[e].individus) |-> <<e, i>>]
         \o IndividuPositions(etabs, e + 1)

\* C15: normalizeEmployees returns exactly one Employee per Individual of
\* every Establishment, in establishment order then individual order;
\* contract start, contract end and job classification come from the last
\* Contract of the Individual (all null when it has none) and the employment
\* country from the owning Establishment.
C15_OneEmployeePerIndividual ==
    result.op = "normalizeEmployees" =>
        LET etabs == IF declaration.entreprise.defined
                        /\ declaration.entreprise.hasEtablissements
                     THEN declaration.entreprise.etablissements ELSE <<>>
            pos   == IndividuPositions(etabs, 1)
        IN  /\ Len(employees) = Len(pos)
            /\ \A k \in DOMAIN pos :
                  LET etab     == etabs[pos[k][1]]
                      individu == etab.individus[pos[k][2]]
                      n        == Len(individu.contrats)
                  IN  /\ employees[k].id = OrElse(individu.identifiant, "")
                      /\ employees[k].country = OrElse(etab.countryCode, "unknown")
                      /\ IF n = 0
                         THEN /\ employees[k].contractStart = Null
                              /\ employees[k].contractEnd = Null
                              /\ employees[k].pcsEse = NullAttr
                         ELSE /\ employees[k].contractStart =
                                    DateField(individu.contrats[n].dateDebut)
                              /\ employees[k].contractEnd =
                                    DateField(individu.contrats[n].dateFin)
                              /\ employees[k].pcsEse =
                                    OrElse(individu.contrats[n].pcsEse, NullAttr)

\* C15 witness: two establishments; the first holds an individual without a
\* contract and one with two contracts, the second one individual; three
\* employees, the second with the dates of its last contract
C15_Witness ==
    /\ result.op = "normalizeEmployees"
    /\ Len(employees) = 3
    /\ Len(declaration.entreprise.etablissements) = 2
    /\ Len(declaration.entreprise.etablissements[1].individus) = 2
    /\ employees[1].id = "i1"
    /\ employees[1].contractStart = Null
    /\ employees[2].id = "i2"
    /\ employees[2].contractStart = DateOf(20240201)
    /\ employees[2].contractEnd = DateOf(20240215)
    /\ employees[2].pcsEse = NullAttr

RequiredColumns == {"ID", "question label en", "content", "order"}

\* C16: loadQuestionsFromCsv throws and returns no tree when the catalogue
\* has fewer than two non-blank lines, when a required column is absent from
\* the header (the error names a missing column, "order" when only order is
\* missing), or when a data row's field count differs from the header's (the
\* error names that row's number, counted from 1 over the data rows).
C16_CatalogueValidation ==
    loaderPc \in {"done", "threw"} =>
        LET IsLine(l)  == l # <<>>
            lines      == SelectSeq(csvFile, IsLine)
            absent     == {c \in RequiredColumns :
                              \A k \in DOMAIN lines[1] : lines[1][k] # c}
            differs(r) == Len(lines[r + 1]) # Len(lines[1])
        IN  /\ loaderPc = "threw" => roots = <<>> /\ flatQuestions = <<>>
            /\ IF Len(lines) < 2
               THEN loaderPc = "threw" /\ loadError.kind = "too-few-lines"
               ELSE IF absent # {}
               THEN /\ loaderPc = "threw"
                    /\ loadError.kind = "missing-column"
                    /\ loadError.column \in absent
               ELSE IF \E r \in 1..(Len(lines) - 1) : differs(r)
               THEN /\ loaderPc = "threw"
                    /\ loadError.kind = "field-count"
                    /\ loadError.row \in 1..(Len(lines) - 1)
                    /\ differs(loadError.row)
                    /\ \A r \in 1..(loadError.row - 1) : ~differs(r)
               ELSE loaderPc = "done" /\ loadError.kind = "none"

\* C16 witness: a catalogue whose header has every required column and whose
\* second data row has one field too many was rejected naming row 2
C16_Witness ==
    /\ loaderPc = "threw"
    /\ loadError.kind = "field-count"
    /\ loadError.row = 2
    /\ Len(csvFile) = 3
    /\ Len(csvFile[3]) = Len(csvFile[1]) + 1

\* C17: every root returned by loadQuestionsFromCsv has parentId undefined
\* and every node placed in a children list has a defined parentId, for every
\* catalogue, rows whose declared parent matches no row included.
C17_RootsHaveNoParentId ==
    loaderPc = "done" =>
        /\ \A k \in DOMAIN roots : flatQuestions[roots[k]].parentId = UNDEF
        /\ \A n \in DOMAIN children :
              \A k \in DOMAIN children[n] :
                  flatQuestions[children[n][k]].parentId # UNDEF

\* C18: after any sequence of handleManualAnswerChange and toggleSection
\* calls, getCurrentAnswer(k) for every key k whose initial answer has source
\* computed is that initial answer (source, explanation and value), and the
\* initial answers map is never modified.
C18_ComputedAnswersKept ==
    /\ [](\A k \in DOMAIN initialAnswers :
              initialAnswers[k].source = "computed" =>
                  /\ getCurrentAnswer(k).source = "computed"
                  /\ getCurrentAnswer(k).explanation = initialAnswers[k].explanation
                  /\ getCurrentAnswer(k).value = initialAnswers[k].value)
    /\ [][initialAnswers' = initialAnswers]_vars

\* C18 witness: a value and an explanation were typed for a computed key and
\* a section was toggled; the form still shows the computed answer
C18_Witness ==
    /\ "S1-6_02" \in DOMAIN initialAnswers
    /\ "S1-6_02" \in DOMAIN manualAnswerChanges
    /\ manualAnswerChanges["S1-6_02"] = [value |-> "x", explanation |-> "x"]
    /\ collapsedSections # <<>>
    /\ getCurrentAnswer("S1-6_02") = ComputedAnswer

\* the request reaches the pipeline: a non-empty .txt file within the limit
ReachesPipeline ==
    /\ upload.file.present
    /\ upload.file.size > 0
    /\ upload.file.size <= 10000000
    /\ upload.file.txt

\* C19: an internal error raised during parsing, catalogue loading or answer
\* computation is answered with status 500 and the generic message, a
\* structural-input error with status 400 and its descriptive message; never
\* the other way round.
C19_InternalErrorsAreGeneric ==
    (response.status # 0 /\ ReachesPipeline) =>
        /\ upload.raised.origin = "internal" =>
              /\ response.status = 500
              /\ response.error = "An unexpected error occurred. Please try again later."
        /\ upload.raised.origin = "structural" =>
              /\ response.status = 400
              /\ response.error = upload.raised.message

\* the last row of the maximal run that starts at row i: rows of block code
\* code, each with a sequence code not below that of the row before it
\* (i - 1 when row i is not of that block code)
RunEnd(rs, i, code) ==
    LET InRun(j) == \A k \in i..j :
                        /\ rs[k].blocCode = code
                        /\ k > i => ParseInt(rs[k].valueCode) >= ParseInt(rs[k - 1].valueCode)
        ends     == {j \in (i - 1)..Len(rs) : InRun(j)}
    IN  CHOOSE j \in ends : \A m \in ends : m <= j

\* C20: getBloc(rows, i, code) is the field-to-value map of exactly the
\* maximal contiguous run of rows from i with block code code and sequence
\* codes, compared as integers, that never decrease; rows outside the run
\* contribute nothing.
C20_GetBlocIsMaximalRun ==
    result.op = "getBloc" =>
        LET i    == result.index
            last == RunEnd(rows, i, result.blocCode)
            bloc == result.value
        IN  /\ DOMAIN bloc = {rows[k].valueCode : k \in i..last}
            /\ \A k \in i..last :
                  (\A m \in (k + 1)..last : rows[m].valueCode # rows[k].valueCode)
                      => bloc[rows[k].valueCode] = rows[k].value

\* C20 witness: getBloc was called at the first of three establishment rows
\* 001, 002, 001; the map has the first two rows and not the third
C20_Witness ==
    /\ result.op = "getBloc"
    /\ result.index = 1
    /\ result.blocCode = EtablissementCode
    /\ Len(rows) = 3
    /\ \A k \in 1..3 : rows[k].blocCode = EtablissementCode
    /\ rows[1].valueCode = <<0, 0, 1>>
    /\ rows[2].valueCode = <<0, 0, 2>>
    /\ rows[3].valueCode = <<0, 0, 1>>
    /\ rows[3].value # rows[1].value
    /\ DOMAIN result.value = {<<0, 0, 1>>, <<0, 0, 2>>}
    /\ result.value[<<0, 0, 1>>] = rows[1].value

\* C21: when a contract block is dispatched, the new Contract is appended to
\* the contracts of the last Individual of the last Establishment and the
\* contracts of every other Individual are unchanged; when the last
\* Establishment has no Individual, or there is no Establishment, the
\* Declaration is left as it was.
C21_ContractOnLastIndividual ==
    [][(dsnPc = "scan" /\ index <= Len(rows) /\ rows[index].blocCode = ContratCode) =>
          LET before  == Etablissements(declaration)
              after   == Etablissements(declaration')
              n       == Len(before)
              contrat == NewContrat(getBloc(rows, index, ContratCode))
          IN  IF n > 0 /\ Len(before[n].individus) > 0
              THEN /\ Len(after) = n
                   /\ \A e \in 1..n :
                         /\ Len(after[e].individus) = Len(before[e].individus)
                         /\ \A i \in DOMAIN before[e].individus :
                               after[e].individus[i].contrats =
                                   IF e = n /\ i = Len(before[n].individus)
                                   THEN Append(before[e].individus[i].contrats, contrat)
                                   ELSE before[e].individus[i].contrats
              ELSE declaration' = declaration]_vars

\* C21 witness: the build has completed on establishment, individual,
\* establishment, individual, contract; the contract is on the individual of
\* the second establishment and the first one has none
C21_Witness ==
    /\ dsnPc = "done"
    /\ Len(rows) = 5
    /\ rows[5].blocCode = ContratCode
    /\ declaration.entreprise.defined
    /\ Len(declaration.entreprise.etablissements) = 2
    /\ Len(declaration.entreprise.etablissements[1].individus) = 1
    /\ Len(declaration.entreprise.etablissements[2].individus) = 1
    /\ declaration.entreprise.etablissements[1].individus[1].contrats = <<>>
    /\ Len(declaration.entreprise.etablissements[2].individus[1].contrats) = 1
    /\ declaration.entreprise.etablissements[2].individus[1].contrats[1].dateDebut = "a"

HeaderBlockStarts ==
    {i \in DOMAIN rows :
        /\ rows[i].blocCode = HeaderCode
        /\ \/ i = 1
           \/ rows[i - 1].blocCode # HeaderCode
           \/ ParseInt(rows[i].valueCode) < ParseInt(rows[i - 1].valueCode)}

\* C23: once the build has returned, the nature, type, reporting-period
\* code, currency and filing date of the Declaration are the ones of the last
\* header block of the file.
C23_LastHeaderBlockWins ==
    (dsnPc = "done" /\ HeaderBlockStarts # {}) =>
        LET last == CHOOSE i \in HeaderBlockStarts : \A j \in HeaderBlockStarts : j <= i
            bloc == getBloc(rows, last, HeaderCode)
        IN  /\ declaration.nature = Field(bloc, <<0, 0, 1>>)
            /\ declaration.type = Field(bloc, <<0, 0, 2>>)
            /\ declaration.mois = Field(bloc, <<0, 0, 5>>)
            /\ declaration.devise = Field(bloc, <<0, 1, 0>>)
            /\ declaration.dateFichier = Field(bloc, <<0, 0, 7>>)

\* C26: when a company-identity block is dispatched, the Establishments built
\* so far, with their Individuals and Contracts, are the same after the block
\* as before it.
C26_CompanyBlockKeepsEstablishments ==
    [][(dsnPc = "scan" /\ index <= Len(rows) /\ rows[index].blocCode = EntrepriseCode) =>
          Etablissements(declaration') = Etablissements(declaration)]_vars

\* how many times node n stands in a list of nodes
Occurrences(list, n) == Cardinality({k \in DOMAIN list : list[k] = n})

\* C24: after the load, a node whose row names a non-empty parent id that
\* some row carries stands once in the children of the node indexed under
\* that id, in no other children list and not among the roots; any other
\* node stands once among the roots and in no children list.
C24_AttachedIffParentIndexed ==
    loaderPc = "done" =>
        \A i \in DOMAIN flatQuestions :
            LET parentId == csvRows[i].relatedQuestionID
                indexed  == parentId # "" /\ \E j \in DOMAIN csvRows : csvRows[j].ID = parentId
            IN  IF indexed
                THEN /\ Occurrences(roots, i) = 0
                     /\ \A p \in DOMAIN flatQuestions :
                           Occurrences(children[p], i) =
                               IF p = questionMap[parentId] THEN 1 ELSE 0
                ELSE /\ Occurrences(roots, i) = 1
                     /\ \A p \in DOMAIN flatQuestions : Occurrences(children[p], i) = 0

\* C24 witness: the first row names the id of the second row as its parent
\* and the second row is a root; after the load the first node is the child
\* of the second
C24_Witness ==
    /\ loaderPc = "done"
    /\ Len(csvRows) = 2
    /\ csvRows[1].ID = "A"
    /\ csvRows[1].relatedQuestionID = "B"
    /\ csvRows[2].ID = "B"
    /\ csvRows[2].relatedQuestionID = ""
    /\ roots = <<2>>
    /\ children[2] = <<1>>
    /\ children[1] = <<>>

\* C29: after the load, every node built from a data row is in the returned
\* forest, stands there once (among the roots or in the children of a node of
\* the forest), and no node of the forest is among its own descendants.
C29_EveryNodeOnceInForest ==
    loaderPc = "done" =>
        /\ \A i \in DOMAIN flatQuestions :
              /\ i \in ForestNodes
              /\ Cardinality({k \in DOMAIN roots : roots[k] = i})
                    + Cardinality({<<p, k>> \in ForestNodes \X (1..Len(flatQuestions)) :
                                      k \in DOMAIN children[p] /\ children[p][k] = i}) = 1
        /\ \A n \in ForestNodes :
              n \notin Descendants(children, {children[n][k] : k \in DOMAIN children[n]})

\* the number of days of month m (1..12) of year y
DaysInMonth(y, m) ==
    CASE m \in {1, 3, 5, 7, 8, 10, 12} -> 31
      [] m \in {4, 6, 9, 11} -> 30
      [] OTHER -> IF y % 400 = 0 \/ (y % 4 = 0 /\ y % 100 # 0) THEN 29 ELSE 28

\* the start-date token of the one contract of the Declaration
ContractStartToken ==
    declaration.entreprise.etablissements[1].individus[1].contrats[1].dateDebut

\* C25: the date parsed from a token is the day the token names when the
\* token is 8 digits YYYYMMDD naming an existing day of an existing month
\* (of a year the Date constructor does not move into 1900..1999), and null
\* for every other token: "20251130" gives 30 November 2025, "20250230"
\* gives null.
C25_DateRoundTrips ==
    result.op = "normalizeEmployees" =>
        LET token  == ContractStartToken
            digits == Len(token) = 8 /\ \A i \in 1..Len(token) : token[i] \in DigitChars
            y      == ParseDigits(SubSeq(token, 1, 4))
            m      == ParseDigits(SubSeq(token, 5, 6))
            dd     == ParseDigits(SubSeq(token, 7, 8))
        IN  /\ employees[1].contractStart =
                  IF digits /\ y >= 100 /\ m \in 1..12 /\ dd \in 1..DaysInMonth(y, m)
                  THEN DateOf(y * 10000 + m * 100 + dd)
                  ELSE Null
            /\ token = <<"2", "0", "2", "5", "1", "1", "3", "0">> =>
                  employees[1].contractStart = DateOf(20251130)
            /\ token = <<"2", "0", "2", "5", "0", "2", "3", "0">> =>
                  employees[1].contractStart = Null

\* C25 witness: the token "20251130" has been parsed to 30 November 2025
C25_Witness ==
    /\ result.op = "normalizeEmployees"
    /\ ContractStartToken = <<"2", "0", "2", "5", "1", "1", "3", "0">>
    /\ employees[1].contractStart = DateOf(20251130)

\* C27: a fresh form shows every section collapsed, and a toggleSection call
\* on a section makes isSectionCollapsed of that section the negation of what
\* it was, leaving every other section as it was.
C27_ToggleFlips ==
    /\ (collapsedSections = <<>> => \A s \in SectionKeys : isSectionCollapsed(s))
    /\ [][\A s \in SectionKeys :
            LET toggled  == /\ s \in DOMAIN collapsedSections'
                            /\ \/ s \notin DOMAIN collapsedSections
                               \/ collapsedSections'[s] # collapsedSections[s]
                after(t) == IF t \in DOMAIN collapsedSections'
                            THEN collapsedSections'[t] ELSE TRUE
            IN  toggled =>
                  /\ after(s) = ~isSectionCollapsed(s)
                  /\ \A t \in SectionKeys \ {s} : after(t) = isSectionCollapsed(t)]_vars

\* C28: for every key the form renders as manual, once a non-empty value has
\* been typed for it, getCurrentAnswer returns that value, whether or not the
\* initial answers hold an entry for the key.
C28_TypedValueShown ==
    \A k \in FormKeys :
        (/\ getCurrentAnswer(k).source = "manual"
         /\ k \in DOMAIN manualAnswerChanges
         /\ manualAnswerChanges[k].value \notin {UNDEF, ""}) =>
            getCurrentAnswer(k).value = TextOf(manualAnswerChanges[k].value)

\* C30: every iteration of the dispatch loop moves the index forward by at
\* least one row and at most to the end of the rows, whatever the block code
\* of the current row, and the loop ends: DSNDataReader returns.
C30_ScanTerminates ==
    /\ [][(dsnPc = "scan" /\ index <= Len(rows)) =>
             /\ index' > index
             /\ index' <= Len(rows) + 1
             /\ dsnPc' = "scan"]_vars
    /\ <>(dsnPc = "done" /\ index = Len(rows) + 1)

\* C30 witness: the build has returned on three rows, the second of a block
\* code that is not dispatched
C30_Witness ==
    /\ dsnPc = "done"
    /\ Len(rows) = 3
    /\ rows[1].blocCode = HeaderCode
    /\ rows[2].blocCode = OtherCode
    /\ rows[3].blocCode = EtablissementCode
    /\ index = 4

====
